---- MODULE Spec2Model ----
(***************************************************************************)
(* PaperCache: the sharded object map, the atomic status, the foreground   *)
(* API (get/set/del/peek/has/ttl/size/wipe/resize/policy), the worker      *)
(* manager, the policy worker with its eviction pass and policy switch,    *)
(* the trace worker and the TTL worker.                                    *)
(*                                                                         *)
(* Option<T> is modelled as a sequence: <<>> is None, <<x>> is Some(x).    *)
(* An atomic u64 counter is kept as an integer n that stands for           *)
(* n mod 2^64: a counter that wrapped below zero is a negative n.          *)
(***************************************************************************)
EXTENDS Integers, Sequences, FiniteSets, TLC

VARIABLES
    new_in,     \* arguments of PaperCache::new
    new_out,    \* its result: "none" while not called, "Ok", or the error
    objects,    \* the object map: hashed key -> Option<Object>
    status,     \* AtomicStatus
    pc,         \* per foreground thread: where it is in its current call
    loc,        \* per foreground thread: the locals of the call in progress
    ret,        \* per foreground thread: the last completed call and its result
    ops,        \* number of foreground calls the threads may still begin
    now,        \* the clock (Instant::now(), in seconds)
    main_q,     \* channel foreground -> worker manager
    policy_q,   \* channel manager -> policy worker
    ttl_q,      \* channel manager -> TTL worker
    trace_q,    \* channel policy worker -> trace worker
    recon_q,    \* channel reconstruction threads -> policy worker
    pw,         \* the policy worker's own state
    tw,         \* the TTL worker's own state
    trace,      \* the events written to the trace fragments
    recon,      \* the running reconstruction threads
    hist        \* history: erasures done by the workers, keys ever stored

vars == <<new_in, new_out, objects, status, pc, loc, ret, ops, now, main_q,
          policy_q, ttl_q, trace_q, recon_q, pw, tw, trace, recon, hist>>

None == <<>>
Some(x) == <<x>>
IsSome(o) == o /= <<>>
Unwrap(o) == o[1]

-----------------------------------------------------------------------------
(* Bounds of the model *)

MaxOps == 3         \* foreground calls per behaviour (sequential specification)
MaxOpsTtl == 3      \* foreground calls per behaviour (expiries)
MaxOpsConc == 3     \* foreground calls per behaviour (two foreground threads)
MaxOpsColl == 3     \* foreground calls per behaviour (colliding keys)
MaxOpsRace == 3     \* foreground calls per behaviour (set and del races)
MaxOpsEvict == 3    \* foreground calls per behaviour (evictions)
MaxOpsAuto == 7     \* foreground calls per behaviour (automatic policy)
MaxTime == 2        \* the clock stops ticking here
MaxPolicies == 3    \* longest policy list given to new

-----------------------------------------------------------------------------
(* Policies and overheads *)

Auto == "Auto"
AllPolicies == {"Lfu", "Fifo", "Clock", "Lru", "Mru", "TwoQ", "SThreeFifo"}

is_auto(policy) == policy = Auto

\* mem::size_of::<ExpireTime>(), ExpireTime = Option<Instant>
ExpireTimeSize == 16

get_policy_overhead(policy) ==
    CASE policy = Auto -> 0
      [] policy = "Lfu" -> 24 + 48 + 8 + 4
      [] policy = "Fifo" -> 48 + 8
      [] policy = "Clock" -> 48 + 8 + 1
      [] policy = "Lru" -> 48 + 8
      [] policy = "Mru" -> 48 + 8
      [] policy = "TwoQ" -> 48 + 8 + 4
      [] policy = "SThreeFifo" -> 48 + 8 + 4 + 1

get_ttl_overhead == ExpireTimeSize + 48

-----------------------------------------------------------------------------
(* Keys, values, objects *)

RawKeys == {1, 2, 3, 4, 5}

\* The hasher: raw keys 1 and 3 collide.  Hashed keys 1, 4 and 5 pass the
\* mini-stack sampling filter, hashed key 20000 does not.
hash_key(key) == IF key = 2 THEN 20000 ELSE IF key = 3 THEN 1 ELSE key

HashedKeys == {hash_key(k) : k \in RawKeys}

\* TypeSize::get_size of a key (u32 in the crate's tests) and of a value: a
\* value v is a payload of v bytes.
KeySize(key) == 4
ValueSize(value) == value

get_expiry_from_ttl(ttl) == now + ttl

ExpiryOf(ttl) ==
    IF ttl = None \/ ttl = Some(0) THEN None
    ELSE Some(get_expiry_from_ttl(Unwrap(ttl)))

\* Object::new that stores an empty payload instead of the value
Object_new_empty(key, data, ttl) ==
    [key |-> key, data |-> 0, expiry |-> ExpiryOf(ttl)]

Object_new(key, data, ttl) ==
    [key |-> key, data |-> data, expiry |-> ExpiryOf(ttl)]

\* key_matches that trusts the hashed slot
key_matches_any(object, key) == TRUE

key_matches(object, key) == object.key = key

Object_total_size(object) ==
    KeySize(object.key) + ValueSize(object.data) + ExpireTimeSize

is_expired(object) ==
    IsSome(object.expiry) /\ Unwrap(object.expiry) <= now

base_size(object) ==
    Object_total_size(object)
        + (IF IsSome(object.expiry) THEN get_ttl_overhead ELSE 0)

-----------------------------------------------------------------------------
(* AtomicStatus *)

Position(seq, x) ==
    IF \E i \in 1..Len(seq) : seq[i] = x
    THEN Some(CHOOSE i \in 1..Len(seq) :
                  seq[i] = x /\ \A j \in 1..(i - 1) : seq[j] /= x)
    ELSE None

get_policy_index(policies, policy) ==
    LET maybe_index == Position(policies, policy)
    IN  IF IsSome(maybe_index)
        THEN [ok |-> TRUE, index |-> Unwrap(maybe_index)]
        ELSE [ok |-> FALSE, index |-> 0]

NoStatus ==
    [max_size |-> 0, base_used_size |-> 0, num_objects |-> 0,
     total_hits |-> 0, total_gets |-> 0, total_sets |-> 0, total_dels |-> 0,
     policies |-> <<>>, policy_index |-> 0, is_auto_policy |-> FALSE]

AtomicStatus_new(max_size, policies, policy) ==
    LET is_auto_policy == is_auto(policy)
        p == IF is_auto_policy THEN "Lfu" ELSE policy
        found == get_policy_index(policies, p)
    IN  IF found.ok
        THEN [res |-> "Ok",
              status |-> [max_size |-> max_size, base_used_size |-> 0,
                          num_objects |-> 0, total_hits |-> 0,
                          total_gets |-> 0, total_sets |-> 0,
                          total_dels |-> 0, policies |-> policies,
                          policy_index |-> found.index,
                          is_auto_policy |-> is_auto_policy]]
        ELSE [res |-> "Internal", status |-> NoStatus]

status_policy(s) == s.policies[s.policy_index]

\* used_size without the per-object overhead
used_size_base_only(s, policy) == s.base_used_size

used_size(s, policy) ==
    s.base_used_size + s.num_objects * get_policy_overhead(policy)

\* a > b for a u64 a kept as an integer that may have wrapped below zero
U64Gt(a, b) == a < 0 \/ a > b

exceeds_max_size(s, size) == size > s.max_size

update_base_used_size(s, delta) ==
    [s EXCEPT !.base_used_size = @ + delta]

set_policy(s, policy) ==
    IF is_auto(policy)
    THEN [res |-> "Ok", status |-> [s EXCEPT !.is_auto_policy = TRUE]]
    ELSE LET found == get_policy_index(s.policies, policy)
         IN  IF found.ok
             THEN [res |-> "Ok",
                   status |-> [s EXCEPT !.policy_index = found.index,
                                        !.is_auto_policy = FALSE]]
             ELSE [res |-> "Internal", status |-> s]

set_auto_policy(s, policy) ==
    IF is_auto(policy)
    THEN [res |-> "Internal", status |-> s]
    ELSE LET found == get_policy_index(s.policies, policy)
         IN  IF found.ok
             THEN [res |-> "Ok",
                   status |-> [s EXCEPT !.policy_index = found.index]]
             ELSE [res |-> "Internal", status |-> s]

status_clear(s) ==
    [s EXCEPT !.base_used_size = 0, !.num_objects = 0, !.total_hits = 0,
              !.total_gets = 0, !.total_sets = 0, !.total_dels = 0]

\* Status::miss_ratio as the pair <<numerator, denominator>> of the ratio
miss_ratio(s) ==
    IF s.total_gets = 0 THEN <<1, 1>>
    ELSE <<s.total_gets - s.total_hits, s.total_gets>>

-----------------------------------------------------------------------------
(* Policy stacks.  A stack is [policy, data]; index 1 of a list is its front.
   Fifo and Lru keep a list of keys; Lfu keeps the list of count lists, lowest
   count at the front; Mru keeps its most recently used key apart from the
   list of the other keys; Clock keeps a list of [key, visited]; Sieve keeps
   such a list and the key under its hand; TwoQ keeps three lists of
   [key, size], front first, and the max sizes of the first two; SThreeFifo
   keeps two lists of [key, size, freq] with their max sizes and the ghost
   list of keys. *)

Contains(list, x) == \E i \in 1..Len(list) : list[i] = x
Without(list, x) == SelectSeq(list, LAMBDA y : y /= x)
PushFront(list, x) == <<x>> \o list
RemoveAt(list, i) == SubSeq(list, 1, i - 1) \o SubSeq(list, i + 1, Len(list))
InsertAfter(list, i, x) ==
    SubSeq(list, 1, i) \o <<x>> \o SubSeq(list, i + 1, Len(list))
PopBack(list) == SubSeq(list, 1, Len(list) - 1)
Back(list) == list[Len(list)]

\* MruStack::default
MruDefault == [mru |-> <<>>, list |-> <<>>]

\* PaperPolicy::TwoQ(k_in, k_out) of the model: k_in = 1/4, k_out = 1/2
TwoQ_k_in(max_size) == max_size \div 4
TwoQ_k_out(max_size) == max_size \div 2

\* TwoQStack::new
TwoQNew(max_size) ==
    [a1_in |-> <<>>, a1_out |-> <<>>, am |-> <<>>,
     in_max |-> TwoQ_k_in(max_size), out_max |-> TwoQ_k_out(max_size)]

\* PaperPolicy::SThreeFifo(ratio) of the model: ratio = 1/2, as in the
\* source's test
SThreeFifo_ratio(max_size) == max_size \div 2

\* SThreeFifoStack::new
S3New(max_size) ==
    [small |-> <<>>, main |-> <<>>, ghost |-> <<>>,
     small_max |-> SThreeFifo_ratio(max_size),
     main_max |-> SThreeFifo_ratio(max_size)]

\* SieveStack::default
SieveDefault == [list |-> <<>>, hand |-> <<>>]

init_policy_stack(policy, max_size) ==
    [policy |-> policy,
     data |-> CASE policy = "Mru" -> MruDefault
                [] policy = "Sieve" -> SieveDefault
                [] policy = "TwoQ" -> TwoQNew(max_size)
                [] policy = "SThreeFifo" -> S3New(max_size)
                [] OTHER -> <<>>]

LfuBucketOf(d, key) ==
    IF \E i \in 1..Len(d) : Contains(d[i].list, key)
    THEN CHOOSE i \in 1..Len(d) : Contains(d[i].list, key)
    ELSE 0

LfuDropIfEmpty(d, i) == IF d[i].list = <<>> THEN RemoveAt(d, i) ELSE d

LfuUpdate(d, key) ==
    LET i == LfuBucketOf(d, key)
    IN  IF i = 0 THEN d
        ELSE LET prev_count == d[i].count
                 d1 == [d EXCEPT ![i].list = Without(@, key)]
             IN  IF i < Len(d1) /\ d1[i + 1].count = prev_count + 1
                 THEN LfuDropIfEmpty(
                          [d1 EXCEPT ![i + 1].list = PushFront(@, key)], i)
                 ELSE LfuDropIfEmpty(
                          InsertAfter(d1, i, [count |-> prev_count + 1,
                                              list |-> <<key>>]), i)

LfuInsert(d, key) ==
    IF LfuBucketOf(d, key) /= 0 THEN LfuUpdate(d, key)
    ELSE LET d1 == IF d = <<>> \/ d[1].count /= 1
                   THEN PushFront(d, [count |-> 1, list |-> <<>>])
                   ELSE d
         IN  [d1 EXCEPT ![1].list = PushFront(@, key)]

LfuRemove(d, key) ==
    LET i == LfuBucketOf(d, key)
    IN  IF i = 0 THEN d
        ELSE LfuDropIfEmpty([d EXCEPT ![i].list = Without(@, key)], i)

\* pop that takes the newest key of the lowest count list
LfuPop_newest(d) ==
    IF d = <<>> THEN [data |-> d, key |-> None]
    ELSE [data |-> LfuDropIfEmpty([d EXCEPT ![1].list = Tail(@)], 1),
          key |-> Some(Head(d[1].list))]

LfuPop(d) ==
    IF d = <<>> THEN [data |-> d, key |-> None]
    ELSE [data |-> LfuDropIfEmpty([d EXCEPT ![1].list = PopBack(@)], 1),
          key |-> Some(Back(d[1].list))]

LruUpdate(d, key) ==
    IF Contains(d, key) THEN PushFront(Without(d, key), key) ELSE d

LruInsert(d, key) ==
    IF Contains(d, key) THEN LruUpdate(d, key) ELSE PushFront(d, key)

FifoInsert(d, key) ==
    IF Contains(d, key) THEN d ELSE PushFront(d, key)

\* HashList::push_front: a key is in the list once
MruPushFront(list, key) == PushFront(Without(list, key), key)

MruLen(d) == IF d.mru = <<>> THEN 0 ELSE Len(d.list) + 1

MruContains(d, key) == d.mru = <<key>> \/ Contains(d.list, key)

MruUpdate(d, key) ==
    IF d.mru = <<key>> THEN d
    ELSE LET list == Without(d.list, key)
         IN  [mru |-> <<key>>,
              list |-> IF d.mru = <<>> THEN list
                       ELSE MruPushFront(list, d.mru[1])]

MruInsert(d, key) ==
    IF Contains(d.list, key) THEN MruUpdate(d, key)
    ELSE [mru |-> <<key>>,
          list |-> IF d.mru = <<>> THEN d.list
                   ELSE MruPushFront(d.list, d.mru[1])]

MruRemove(d, key) ==
    IF d.mru = <<key>>
    THEN IF d.list = <<>> THEN [mru |-> <<>>, list |-> <<>>]
         ELSE [mru |-> <<Head(d.list)>>, list |-> Tail(d.list)]
    ELSE [d EXCEPT !.list = Without(@, key)]

MruEvictOne(d) ==
    IF d.list /= <<>>
    THEN [data |-> [d EXCEPT !.list = Tail(@)], key |-> <<Head(d.list)>>]
    ELSE [data |-> [d EXCEPT !.mru = <<>>], key |-> d.mru]

\* ClockStack: Object::new has visited = true
ClockContains(d, key) == \E i \in 1..Len(d) : d[i].key = key

ClockUpdate(d, key) ==
    [i \in 1..Len(d) |->
        IF d[i].key = key THEN [d[i] EXCEPT !.visited = TRUE] ELSE d[i]]

ClockInsert(d, key) ==
    IF ClockContains(d, key) THEN ClockUpdate(d, key)
    ELSE PushFront(d, [key |-> key, visited |-> TRUE])

ClockRemove(d, key) == SelectSeq(d, LAMBDA o : o.key /= key)

\* pop that takes the back of the list whatever its flag
ClockPop_unchecked(d) ==
    IF d = <<>> THEN [data |-> d, key |-> None]
    ELSE [data |-> PopBack(d), key |-> Some(Back(d).key)]

RECURSIVE ClockPop(_)
ClockPop(d) ==
    IF d = <<>> THEN [data |-> d, key |-> None]
    ELSE IF ~Back(d).visited
    THEN [data |-> PopBack(d), key |-> Some(Back(d).key)]
    ELSE ClockPop(PushFront(PopBack(d), [Back(d) EXCEPT !.visited = FALSE]))

\* SieveStack: Object::new has visited = false; HashList::before is the
\* entry next to the key on the side of the front
SieveInsert(d, key) ==
    IF ClockContains(d.list, key)
    THEN [d EXCEPT !.list = ClockUpdate(@, key)]
    ELSE [d EXCEPT !.list = PushFront(@, [key |-> key, visited |-> FALSE])]

SieveUpdate(d, key) == [d EXCEPT !.list = ClockUpdate(@, key)]

SieveBefore(list, key) ==
    IF \E i \in 2..Len(list) : list[i].key = key
    THEN Some(list[(CHOOSE i \in 2..Len(list) : list[i].key = key) - 1].key)
    ELSE None

SieveRemove(d, key) ==
    [list |-> ClockRemove(d.list, key), hand |-> SieveBefore(d.list, key)]

RECURSIVE SieveEvictOne(_)
SieveEvictOne(d) ==
    IF d.list = <<>> THEN [data |-> d, key |-> None]
    ELSE LET key == IF IsSome(d.hand) THEN Unwrap(d.hand)
                    ELSE Back(d.list).key
             hand == SieveBefore(d.list, key)
         IN  IF ~ClockContains(d.list, key)
             THEN [data |-> [d EXCEPT !.hand = hand], key |-> None]
             ELSE IF \E i \in 1..Len(d.list) :
                         d.list[i].key = key /\ ~d.list[i].visited
             THEN [data |-> [list |-> ClockRemove(d.list, key),
                             hand |-> hand],
                   key |-> Some(key)]
             ELSE SieveEvictOne(
                      [list |-> [i \in 1..Len(d.list) |->
                                    IF d.list[i].key = key
                                    THEN [d.list[i] EXCEPT !.visited = FALSE]
                                    ELSE d.list[i]],
                       hand |-> hand])

\* Stack::used_size of the 2Q and S3-FIFO stacks
RECURSIVE SizeSum(_)
SizeSum(list) ==
    IF list = <<>> THEN 0 ELSE Head(list).size + SizeSum(Tail(list))

TwoQContains(d, key) ==
    \/ ClockContains(d.a1_in, key)
    \/ ClockContains(d.a1_out, key)
    \/ ClockContains(d.am, key)

\* restructure_to_fit: a1_in gives its back to a1_out until the object fits
RECURSIVE TwoQRestructure(_, _)
TwoQRestructure(d, size) ==
    IF SizeSum(d.a1_in) + size <= d.in_max \/ d.a1_in = <<>> THEN d
    ELSE TwoQRestructure([d EXCEPT !.a1_in = PopBack(@),
                                   !.a1_out = PushFront(@, Back(d.a1_in))],
                         size)

TwoQUpdate(d, key) ==
    IF ClockContains(d.a1_out, key)
    THEN LET object == CHOOSE o \in {d.a1_out[i] : i \in 1..Len(d.a1_out)} :
                           o.key = key
         IN  [d EXCEPT !.a1_out = ClockRemove(@, key),
                       !.am = PushFront(@, object)]
    ELSE IF ClockContains(d.am, key)
    THEN LET object == CHOOSE o \in {d.am[i] : i \in 1..Len(d.am)} :
                           o.key = key
         IN  [d EXCEPT !.am = PushFront(ClockRemove(@, key), object)]
    ELSE d

TwoQInsert(d, key, size) ==
    LET Resized(list) ==
            [i \in 1..Len(list) |->
                IF list[i].key = key THEN [list[i] EXCEPT !.size = size]
                ELSE list[i]]
    IN  IF TwoQContains(d, key)
        THEN TwoQUpdate([d EXCEPT !.a1_in = Resized(@),
                                  !.a1_out = Resized(@),
                                  !.am = Resized(@)], key)
        ELSE [TwoQRestructure(d, size) EXCEPT
                 !.a1_in = PushFront(@, [key |-> key, size |-> size])]

TwoQRemove(d, key) ==
    [d EXCEPT !.a1_in = ClockRemove(@, key),
              !.a1_out = ClockRemove(@, key),
              !.am = ClockRemove(@, key)]

TwoQResize(d, max_size) ==
    [d EXCEPT !.in_max = TwoQ_k_in(max_size),
              !.out_max = TwoQ_k_out(max_size)]

TwoQPop(d) ==
    IF d.a1_out /= <<>>
    THEN [data |-> [d EXCEPT !.a1_out = PopBack(@)],
          key |-> Some(Back(d.a1_out).key)]
    ELSE IF d.a1_in /= <<>>
    THEN [data |-> [d EXCEPT !.a1_in = PopBack(@)],
          key |-> Some(Back(d.a1_in).key)]
    ELSE IF d.am /= <<>>
    THEN [data |-> [d EXCEPT !.am = PopBack(@)],
          key |-> Some(Back(d.am).key)]
    ELSE [data |-> d, key |-> None]

\* pop_back while the list is longer than n
TrimTo(list, n) == IF Len(list) > n THEN SubSeq(list, 1, n) ELSE list

\* Stack::is_full of the main stack
S3MainIsFull(d) == SizeSum(d.main) >= d.main_max

S3Update(d, key) ==
    LET Incr(list) ==
            [i \in 1..Len(list) |->
                IF list[i].key = key
                THEN [list[i] EXCEPT !.freq = IF @ + 1 < 3 THEN @ + 1 ELSE 3]
                ELSE list[i]]
    IN  [d EXCEPT !.small = Incr(@), !.main = Incr(@)]

S3Insert(d, key, size) ==
    LET Resized(list) ==
            [i \in 1..Len(list) |->
                IF list[i].key = key THEN [list[i] EXCEPT !.size = size]
                ELSE list[i]]
        object == [key |-> key, size |-> size, freq |-> 0]
    IN  IF ClockContains(d.small, key) \/ ClockContains(d.main, key)
        THEN S3Update([d EXCEPT !.small = Resized(@), !.main = Resized(@)],
                      key)
        ELSE IF Contains(d.ghost, key)
        THEN [d EXCEPT !.main = PushFront(@, object)]
        ELSE [d EXCEPT !.small = PushFront(@, object)]

S3Remove(d, key) ==
    [d EXCEPT !.small = ClockRemove(@, key),
              !.main = ClockRemove(@, key),
              !.ghost = Without(@, key)]

S3Resize(d, max_size) ==
    [d EXCEPT !.small_max = SThreeFifo_ratio(max_size),
              !.main_max = SThreeFifo_ratio(max_size)]

RECURSIVE S3EvictMain(_)
S3EvictMain(d) ==
    IF d.main = <<>> THEN [data |-> d, key |-> None]
    ELSE LET object == Back(d.main)
         IN  IF object.freq > 0
             THEN S3EvictMain(
                      [d EXCEPT !.main = PushFront(PopBack(@),
                                    [object EXCEPT !.freq = @ - 1])])
             ELSE [data |-> [d EXCEPT !.main = PopBack(@),
                                      !.ghost = TrimTo(@, Len(d.main) - 1)],
                   key |-> Some(object.key)]

\* evict_small that evicts the back of small whatever its frequency
S3EvictSmall_unchecked(d) ==
    IF d.small = <<>> THEN [data |-> d, key |-> None]
    ELSE [data |-> [d EXCEPT !.small = PopBack(@),
                             !.ghost = PushFront(@, Back(d.small).key)],
          key |-> Some(Back(d.small).key)]

RECURSIVE S3EvictSmall(_)
S3EvictSmall(d) ==
    IF d.small = <<>> THEN [data |-> d, key |-> None]
    ELSE LET object == Back(d.small)
             moved == [d EXCEPT !.small = PopBack(@),
                                !.main = PushFront(@, object)]
         IN  IF object.freq > 1
             THEN IF S3MainIsFull(moved) THEN S3EvictMain(moved)
                  ELSE S3EvictSmall(moved)
             ELSE [data |-> [d EXCEPT !.small = PopBack(@),
                                      !.ghost = PushFront(@, object.key)],
                   key |-> Some(object.key)]

S3Pop(d) ==
    IF ~S3MainIsFull(d)
    THEN LET r == S3EvictSmall(d)
         IN  IF IsSome(r.key) THEN r ELSE S3EvictMain(r.data)
    ELSE S3EvictMain(d)

ListPop(d) ==
    IF d = <<>> THEN [data |-> d, key |-> None]
    ELSE [data |-> PopBack(d), key |-> Some(Back(d))]

stack_len(s) ==
    CASE s.policy = "Lfu" ->
            Cardinality({k \in HashedKeys : LfuBucketOf(s.data, k) /= 0})
      [] s.policy = "Mru" -> MruLen(s.data)
      [] s.policy = "Sieve" -> Len(s.data.list)
      [] s.policy = "TwoQ" ->
            Len(s.data.a1_in) + Len(s.data.a1_out) + Len(s.data.am)
      [] s.policy = "SThreeFifo" -> Len(s.data.small) + Len(s.data.main)
      [] OTHER -> Len(s.data)

stack_contains(s, key) ==
    CASE s.policy = "Lfu" -> LfuBucketOf(s.data, key) /= 0
      [] s.policy = "Mru" -> MruContains(s.data, key)
      [] s.policy = "Clock" -> ClockContains(s.data, key)
      [] s.policy = "Sieve" -> ClockContains(s.data.list, key)
      [] s.policy = "TwoQ" -> TwoQContains(s.data, key)
      [] s.policy = "SThreeFifo" ->
            \/ ClockContains(s.data.small, key)
            \/ ClockContains(s.data.main, key)
      [] OTHER -> Contains(s.data, key)

stack_insert(s, key, size) ==
    [s EXCEPT !.data = CASE s.policy = "Lfu" -> LfuInsert(@, key)
                         [] s.policy = "Lru" -> LruInsert(@, key)
                         [] s.policy = "Mru" -> MruInsert(@, key)
                         [] s.policy = "Clock" -> ClockInsert(@, key)
                         [] s.policy = "Sieve" -> SieveInsert(@, key)
                         [] s.policy = "TwoQ" -> TwoQInsert(@, key, size)
                         [] s.policy = "SThreeFifo" -> S3Insert(@, key, size)
                         [] OTHER -> FifoInsert(@, key)]

stack_update(s, key) ==
    [s EXCEPT !.data = CASE s.policy = "Lfu" -> LfuUpdate(@, key)
                         [] s.policy = "Lru" -> LruUpdate(@, key)
                         [] s.policy = "Mru" -> MruUpdate(@, key)
                         [] s.policy = "Clock" -> ClockUpdate(@, key)
                         [] s.policy = "Sieve" -> SieveUpdate(@, key)
                         [] s.policy = "TwoQ" -> TwoQUpdate(@, key)
                         [] s.policy = "SThreeFifo" -> S3Update(@, key)
                         [] OTHER -> @]

stack_remove(s, key) ==
    [s EXCEPT !.data = CASE s.policy = "Lfu" -> LfuRemove(@, key)
                         [] s.policy = "Mru" -> MruRemove(@, key)
                         [] s.policy = "Clock" -> ClockRemove(@, key)
                         [] s.policy = "Sieve" -> SieveRemove(@, key)
                         [] s.policy = "TwoQ" -> TwoQRemove(@, key)
                         [] s.policy = "SThreeFifo" -> S3Remove(@, key)
                         [] OTHER -> Without(@, key)]

stack_resize(s, size) ==
    [s EXCEPT !.data = CASE s.policy = "TwoQ" -> TwoQResize(@, size)
                         [] s.policy = "SThreeFifo" -> S3Resize(@, size)
                         [] OTHER -> @]

stack_clear(s) ==
    [s EXCEPT !.data = CASE s.policy = "Mru" -> MruDefault
                         [] s.policy = "Sieve" -> SieveDefault
                         [] s.policy = "TwoQ" ->
                                [@ EXCEPT !.a1_in = <<>>, !.a1_out = <<>>,
                                          !.am = <<>>]
                         [] s.policy = "SThreeFifo" ->
                                [@ EXCEPT !.small = <<>>, !.main = <<>>,
                                          !.ghost = <<>>]
                         [] OTHER -> <<>>]

\* the stack s with the data that its pop left
stack_popped(s, r) == [stack |-> [s EXCEPT !.data = r.data], key |-> r.key]

\* pop: [stack |-> the stack after the call, key |-> Option<HashedKey>]
stack_pop(s) ==
    stack_popped(s, CASE s.policy = "Lfu" -> LfuPop(s.data)
                      [] s.policy = "Mru" -> MruEvictOne(s.data)
                      [] s.policy = "Clock" -> ClockPop(s.data)
                      [] s.policy = "Sieve" -> SieveEvictOne(s.data)
                      [] s.policy = "TwoQ" -> TwoQPop(s.data)
                      [] s.policy = "SThreeFifo" -> S3Pop(s.data)
                      [] OTHER -> ListPop(s.data))

\* the keys in the order in which pop returns them
RECURSIVE stack_drain(_)
stack_drained(r) ==
    IF r.key = None THEN <<>> ELSE <<Unwrap(r.key)>> \o stack_drain(r.stack)

stack_drain(s) == stack_drained(stack_pop(s))

StackEvent_apply(s, event) ==
    CASE event.type = "Get" -> stack_update(s, event.key)
      [] event.type = "Set" -> stack_insert(s, event.key, event.size)
      [] event.type = "Del" -> stack_remove(s, event.key)
      [] event.type = "Wipe" -> stack_clear(s)
      [] event.type = "Resize" -> stack_resize(s, event.size)

RECURSIVE replay(_, _)
replay(s, events) ==
    IF events = <<>> THEN s
    ELSE replay(StackEvent_apply(s, Head(events)), Tail(events))

-----------------------------------------------------------------------------
(* Mini stacks *)

MINI_SAMPLING_MODULUS == 16777216
MINI_SAMPLING_THRESHOLD == 16777

should_mini_sample(hashed_key) ==
    (hashed_key % MINI_SAMPLING_MODULUS) < MINI_SAMPLING_THRESHOLD

\* (size as f64 * ratio) as u64, exact for the sizes of the model
get_mini_stack_size(size) ==
    (size * MINI_SAMPLING_THRESHOLD) \div MINI_SAMPLING_MODULUS

MiniStack_new(policy, size) ==
    [stack |-> init_policy_stack(policy, size),
     sizes |-> [k \in HashedKeys |-> None],
     policy |-> policy, max_size |-> size, used_size |-> 0,
     count |-> 0, hits |-> 0]

\* the mini stack m after its stack popped r: the key that was popped leaves
\* sizes and its size leaves used_size
MiniStack_popped(m, r) ==
    IF ~IsSome(r.key) THEN [m EXCEPT !.stack = r.stack]
    ELSE [m EXCEPT !.stack = r.stack,
                   !.sizes[Unwrap(r.key)] = None,
                   !.used_size = IF IsSome(m.sizes[Unwrap(r.key)])
                                 THEN @ - Unwrap(m.sizes[Unwrap(r.key)])
                                 ELSE @]

\* the loop of reduce never ends: used_size is above target_size and the
\* stack pops nothing
RECURSIVE MiniStack_reduce_hangs(_, _)
MiniStack_reduce_hangs_after(m, target_size, r) ==
    IF r.key = None THEN TRUE
    ELSE MiniStack_reduce_hangs(MiniStack_popped(m, r), target_size)

MiniStack_reduce_hangs(m, target_size) ==
    IF target_size < 0 \/ m.used_size <= target_size THEN FALSE
    ELSE MiniStack_reduce_hangs_after(m, target_size, stack_pop(m.stack))

\* reduce: pops until used_size <= target_size.  target_size is a u64: a
\* negative target stands for a wrapped, huge one and stops the loop at once.
\* Where the stack pops nothing the loop goes on: MiniStack_reduce_hangs.
RECURSIVE MiniStack_reduce(_, _)
MiniStack_reduce_after(m, target_size, r) ==
    IF r.key = None THEN m
    ELSE MiniStack_reduce(MiniStack_popped(m, r), target_size)

MiniStack_reduce(m, target_size) ==
    IF target_size < 0 \/ m.used_size <= target_size THEN m
    ELSE MiniStack_reduce_after(m, target_size, stack_pop(m.stack))

\* insert once reduce has made room
MiniStack_insert_reduced(m, key, size) ==
    [m EXCEPT !.sizes[key] = Some(size),
              !.used_size = @ - (IF IsSome(m.sizes[key])
                                 THEN Unwrap(m.sizes[key]) ELSE 0)
                              + size,
              !.stack = stack_insert(@, key, size)]

MiniStack_insert(m, key, size) ==
    MiniStack_insert_reduced(MiniStack_reduce(m, m.max_size - size), key, size)

MiniStack_update_with_count(m, key) ==
    [m EXCEPT !.count = @ + 1,
              !.hits = IF stack_contains(m.stack, key) THEN @ + 1 ELSE @,
              !.stack = stack_update(@, key)]

MiniStack_remove(m, key) ==
    LET sz == m.sizes[key]
    IN  [m EXCEPT !.stack = stack_remove(@, key),
                  !.sizes[key] = None,
                  !.used_size = IF IsSome(sz) THEN @ - Unwrap(sz) ELSE @]

MiniStack_resize(m, size) ==
    MiniStack_reduce([m EXCEPT !.stack = stack_resize(@, size),
                               !.max_size = size], size)

MiniStack_clear(m) ==
    [m EXCEPT !.stack = stack_clear(@),
              !.sizes = [k \in HashedKeys |-> None],
              !.used_size = 0, !.count = 0, !.hits = 0]

MiniStack_pop_result(m, r) == [mini |-> MiniStack_popped(m, r), key |-> r.key]

MiniStack_pop(m) == MiniStack_pop_result(m, stack_pop(m.stack))

\* MiniStack::miss_ratio as <<numerator, denominator>>
MiniStack_miss_ratio(m) ==
    IF m.count = 0 THEN <<1, 1>> ELSE <<m.count - m.hits, m.count>>

RatioLt(a, b) == a[1] * b[2] < b[1] * a[2]
RatioEq(a, b) == a[1] * b[2] = b[1] * a[2]


-----------------------------------------------------------------------------
(* Worker events, foreground bookkeeping *)

Threads == {1, 2}

WorkerEvent(type, key, size, expiry, old_info, old_expiry, policy, hit) ==
    [type |-> type, key |-> key, size |-> size, expiry |-> expiry,
     old_info |-> old_info, old_expiry |-> old_expiry, policy |-> policy,
     hit |-> hit]

NoEvent == WorkerEvent("None", 0, 0, None, None, None, "", FALSE)
GetEvent(key, hit) == WorkerEvent("Get", key, 0, None, None, None, "", hit)
SetEvent(key, size, expiry, old_info) ==
    WorkerEvent("Set", key, size, expiry, old_info, None, "", FALSE)
DelEvent(key, expiry) ==
    WorkerEvent("Del", key, 0, expiry, None, None, "", FALSE)
TtlEvent(key, old_expiry, new_expiry) ==
    WorkerEvent("Ttl", key, 0, new_expiry, None, old_expiry, "", FALSE)
WipeEvent == WorkerEvent("Wipe", 0, 0, None, None, None, "", FALSE)
ResizeEvent(size) ==
    WorkerEvent("Resize", 0, size, None, None, None, "", FALSE)
PolicyEvent(policy) ==
    WorkerEvent("Policy", 0, 0, None, None, None, policy, FALSE)

\* StackEvent::maybe_from_worker_event as Option<StackEvent>
maybe_from_worker_event(event) ==
    CASE event.type = "Get" /\ event.hit ->
            Some([type |-> "Get", key |-> event.key, size |-> 0])
      [] event.type = "Set" ->
            Some([type |-> "Set", key |-> event.key, size |-> event.size])
      [] event.type = "Del" ->
            Some([type |-> "Del", key |-> event.key, size |-> 0])
      [] event.type = "Wipe" ->
            Some([type |-> "Wipe", key |-> 0, size |-> 0])
      [] event.type = "Resize" ->
            Some([type |-> "Resize", key |-> 0, size |-> event.size])
      [] OTHER -> None

StackDel(key) == [type |-> "Del", key |-> key, size |-> 0]
StackResize(size) == [type |-> "Resize", key |-> 0, size |-> size]

\* History of a hashed key: the last foreground call that changed its slot and
\* whether a worker erased the slot since.
NoLast ==
    [kind |-> "never", key |-> 0, value |-> 0, expiry |-> None,
     evicted |-> FALSE, expired |-> FALSE]
Last(kind, key, value, expiry) ==
    [kind |-> kind, key |-> key, value |-> value, expiry |-> expiry,
     evicted |-> FALSE, expired |-> FALSE]

NoRet == [n |-> 0, op |-> "none", key |-> 0, res |-> "", val |-> None,
          at |-> 0, expect |-> NoLast, policy |-> "", arg |-> <<>>]

\* what a call returns: the result, the value carried by Ok, the time of the
\* call's lookup and the history of the slot it looked at
Ret(op, key, res, val, expect) ==
    [n |-> 0, op |-> op, key |-> key, res |-> res, val |-> val, at |-> now,
     expect |-> expect, policy |-> "", arg |-> <<>>]

NoLoc == [event |-> NoEvent, object |-> None, delta |-> 0, is_new |-> FALSE,
          ret |-> NoRet]

\* the call of thread t returns r
Return(t, r) ==
    /\ ret' = [ret EXCEPT ![t] = [r EXCEPT !.n = ret[t].n + 1]]
    /\ pc' = [pc EXCEPT ![t] = "idle"]
    /\ loc' = [loc EXCEPT ![t] = NoLoc]

\* the call of thread t goes on to its second step
Continue(t, step, l) ==
    /\ pc' = [pc EXCEPT ![t] = step]
    /\ loc' = [loc EXCEPT ![t] = l]
    /\ ret' = ret

broadcast(event) == main_q' = Append(main_q, event)

\* the lookup shared by get, peek, has, size and ttl
Found(key) ==
    LET slot == objects[hash_key(key)]
    IN  /\ IsSome(slot)
        /\ key_matches(Unwrap(slot), key)
        /\ ~is_expired(Unwrap(slot))

WorkerVars == <<policy_q, ttl_q, trace_q, recon_q, pw, tw, trace, recon>>
NewVars == <<new_in, new_out>>


-----------------------------------------------------------------------------
(* The foreground API.  A call that touches the map and then the status and
   the event bus takes two steps, so that other threads and the workers can
   run in between. *)

\* get that counts only the hits
get_A_hits_only(t, key) ==
    LET hashed_key == hash_key(key)
        hit == Found(key)
    IN  /\ pc[t] = "idle"
        /\ ops > 0
        /\ ops' = ops - 1
        /\ status' = IF hit
                     THEN [status EXCEPT !.total_hits = @ + 1,
                                         !.total_gets = @ + 1]
                     ELSE status
        /\ Continue(t, "get",
               [NoLoc EXCEPT
                   !.event = GetEvent(hashed_key, hit),
                   !.ret = IF hit
                           THEN Ret("get", key, "Ok",
                                    Some(Unwrap(objects[hashed_key]).data),
                                    hist[hashed_key])
                           ELSE Ret("get", key, "KeyNotFound", None,
                                    hist[hashed_key])])
        /\ UNCHANGED <<objects, now, main_q, hist, WorkerVars, NewVars>>

get_A(t, key) ==
    LET hashed_key == hash_key(key)
        hit == Found(key)
    IN  /\ pc[t] = "idle"
        /\ ops > 0
        /\ ops' = ops - 1
        /\ status' = IF hit
                     THEN [status EXCEPT !.total_hits = @ + 1,
                                         !.total_gets = @ + 1]
                     ELSE [status EXCEPT !.total_gets = @ + 1]
        /\ Continue(t, "get",
               [NoLoc EXCEPT
                   !.event = GetEvent(hashed_key, hit),
                   !.ret = IF hit
                           THEN Ret("get", key, "Ok",
                                    Some(Unwrap(objects[hashed_key]).data),
                                    hist[hashed_key])
                           ELSE Ret("get", key, "KeyNotFound", None,
                                    hist[hashed_key])])
        /\ UNCHANGED <<objects, now, main_q, hist, WorkerVars, NewVars>>

get_B(t) ==
    /\ pc[t] = "get"
    /\ broadcast(loc[t].event)
    /\ UNCHANGED ops
    /\ Return(t, loc[t].ret)
    /\ UNCHANGED <<objects, status, now, hist, WorkerVars, NewVars>>

peek(t, key) ==
    LET hashed_key == hash_key(key)
    IN  /\ pc[t] = "idle"
        /\ ops > 0
        /\ ops' = ops - 1
        /\ Return(t, IF Found(key)
                     THEN Ret("peek", key, "Ok",
                              Some(Unwrap(objects[hashed_key]).data),
                              hist[hashed_key])
                     ELSE Ret("peek", key, "KeyNotFound", None,
                              hist[hashed_key]))
        /\ UNCHANGED <<objects, status, now, main_q, hist, WorkerVars,
                       NewVars>>

has(t, key) ==
    /\ pc[t] = "idle"
    /\ ops > 0
    /\ ops' = ops - 1
    /\ Return(t, Ret("has", key, IF Found(key) THEN "true" ELSE "false",
                     None, hist[hash_key(key)]))
    /\ UNCHANGED <<objects, status, now, main_q, hist, WorkerVars, NewVars>>

\* OverheadManager::total_size
total_size(object) ==
    base_size(object) + get_policy_overhead(status_policy(status))

size(t, key) ==
    LET hashed_key == hash_key(key)
    IN  /\ pc[t] = "idle"
        /\ ops > 0
        /\ ops' = ops - 1
        /\ Return(t, IF Found(key)
                     THEN Ret("size", key, "Ok",
                              Some(total_size(Unwrap(objects[hashed_key]))),
                              hist[hashed_key])
                     ELSE Ret("size", key, "KeyNotFound", None,
                              hist[hashed_key]))
        /\ UNCHANGED <<objects, status, now, main_q, hist, WorkerVars,
                       NewVars>>

\* AtomicStatus::try_to_status: the used size it reports
try_to_status(s) == used_size(s, status_policy(s))

status_call(t) ==
    /\ pc[t] = "idle"
    /\ ops > 0
    /\ ops' = ops - 1
    /\ Return(t, Ret("status", 0, "Ok", Some(try_to_status(status)), NoLast))
    /\ UNCHANGED <<objects, status, now, main_q, hist, WorkerVars, NewVars>>

set_A(t, key, value, ttl) ==
    LET hashed_key == hash_key(key)
        object == Object_new(key, value, ttl)
        size_ == base_size(object)
        old == objects[hashed_key]
        old_object_info ==
            IF IsSome(old)
            THEN Some([size |-> base_size(Unwrap(old)),
                       expiry |-> Unwrap(old).expiry])
            ELSE None
        SetRet(res) == [Ret("set", key, res, None, hist[hashed_key])
                           EXCEPT !.arg = <<value, ttl>>]
    IN  /\ pc[t] = "idle"
        /\ ops > 0
        /\ ops' = ops - 1
        /\ IF size_ = 0
           THEN /\ Return(t, SetRet("ZeroValueSize"))
                /\ UNCHANGED <<objects, status, hist>>
           ELSE IF exceeds_max_size(status, size_)
           THEN /\ Return(t, SetRet("ExceedingValueSize"))
                /\ UNCHANGED <<objects, status, hist>>
           ELSE /\ status' = [status EXCEPT !.total_sets = @ + 1]
                /\ objects' = [objects EXCEPT ![hashed_key] = Some(object)]
                /\ hist' = [hist EXCEPT ![hashed_key] =
                               Last("set", key, value, object.expiry)]
                /\ Continue(t, "set",
                       [NoLoc EXCEPT
                           !.event = SetEvent(hashed_key, size_,
                                              object.expiry, old_object_info),
                           !.is_new = ~IsSome(old),
                           !.delta = IF IsSome(old)
                                     THEN size_ - base_size(Unwrap(old))
                                     ELSE size_,
                           !.ret = SetRet("Ok")])
        /\ UNCHANGED <<now, main_q, WorkerVars, NewVars>>

set_B(t) ==
    /\ pc[t] = "set"
    /\ status' = update_base_used_size(
                     IF loc[t].is_new
                     THEN [status EXCEPT !.num_objects = @ + 1]
                     ELSE status,
                     loc[t].delta)
    /\ broadcast(loc[t].event)
    /\ UNCHANGED ops
    /\ Return(t, loc[t].ret)
    /\ UNCHANGED <<objects, now, hist, WorkerVars, NewVars>>

\* erase, after the entry has been removed: the status update
erase_status(s, object) ==
    [update_base_used_size(s, 0 - base_size(object))
        EXCEPT !.num_objects = @ - 1]

\* erase that reports every removal as Ok
erase_result_ok(object) == "Ok"

\* erase: its result for the removed object
erase_result(object) == IF ~is_expired(object) THEN "Ok" ELSE "KeyNotFound"

\* erase: the entry named by maybe_key, Option<hashed key>; with None any
\* entry of the map (the set is empty when the map is)
erase_targets(maybe_key) ==
    IF IsSome(maybe_key) THEN {Unwrap(maybe_key)}
    ELSE {k \in HashedKeys : IsSome(objects[k])}

\* del that counts the call before looking the key up
del_A_counting(t, key) ==
    LET hashed_key == hash_key(key)
        slot == objects[hashed_key]
    IN  /\ pc[t] = "idle"
        /\ ops > 0
        /\ ops' = ops - 1
        /\ IF ~IsSome(slot) \/ ~key_matches(Unwrap(slot), key)
           THEN /\ Return(t, Ret("del", key, "KeyNotFound", None,
                                 hist[hashed_key]))
                /\ status' = [status EXCEPT !.total_dels = @ + 1]
                /\ UNCHANGED <<objects, hist>>
           ELSE /\ objects' = [objects EXCEPT ![hashed_key] = None]
                /\ hist' = [hist EXCEPT ![hashed_key] =
                               Last("gone", key, 0, None)]
                /\ status' = status
                /\ Continue(t, "del",
                       [NoLoc EXCEPT !.object = slot,
                                     !.ret = Ret("del", key, "", None,
                                                 hist[hashed_key])])
        /\ UNCHANGED <<now, main_q, WorkerVars, NewVars>>

del_A(t, key) ==
    LET hashed_key == hash_key(key)
        slot == objects[hashed_key]
    IN  /\ pc[t] = "idle"
        /\ ops > 0
        /\ ops' = ops - 1
        /\ IF ~IsSome(slot) \/ ~key_matches(Unwrap(slot), key)
           THEN /\ Return(t, Ret("del", key, "KeyNotFound", None,
                                 hist[hashed_key]))
                /\ UNCHANGED <<objects, hist>>
           ELSE /\ objects' = [objects EXCEPT ![hashed_key] = None]
                /\ hist' = [hist EXCEPT ![hashed_key] =
                               Last("gone", key, 0, None)]
                /\ Continue(t, "del",
                       [NoLoc EXCEPT !.object = slot,
                                     !.ret = Ret("del", key, "", None,
                                                 hist[hashed_key])])
        /\ UNCHANGED <<status, now, main_q, WorkerVars, NewVars>>

del_B(t) ==
    LET object == Unwrap(loc[t].object)
        hashed_key == hash_key(object.key)
        erased == erase_status(status, object)
    IN  /\ pc[t] = "del"
        /\ UNCHANGED ops
        /\ IF erase_result(object) = "Ok"
           THEN /\ status' = [erased EXCEPT !.total_dels = @ + 1]
                /\ broadcast(DelEvent(hashed_key, object.expiry))
                /\ hist' = [hist EXCEPT ![hashed_key] =
                               IF @.kind = "gone"
                               THEN [@ EXCEPT !.kind = "del"] ELSE @]
                /\ Return(t, [loc[t].ret EXCEPT !.res = "Ok"])
           ELSE /\ status' = erased
                /\ UNCHANGED <<main_q, hist>>
                /\ Return(t, [loc[t].ret EXCEPT !.res = "KeyNotFound"])
        /\ UNCHANGED <<objects, now, WorkerVars, NewVars>>

ttl(t, key, new_ttl) ==
    LET hashed_key == hash_key(key)
    IN  /\ pc[t] = "idle"
        /\ ops > 0
        /\ ops' = ops - 1
        /\ IF ~Found(key)
           THEN /\ Return(t, Ret("ttl", key, "KeyNotFound", None,
                                 hist[hashed_key]))
                /\ UNCHANGED <<objects, status, main_q, hist>>
           ELSE LET object == Unwrap(objects[hashed_key])
                    old_expiry == object.expiry
                    old_base_size == base_size(object)
                    expires == [object EXCEPT !.expiry = ExpiryOf(new_ttl)]
                    new_expiry == expires.expiry
                    new_base_size == base_size(expires)
                IN  /\ objects' = [objects EXCEPT
                                      ![hashed_key] = Some(expires)]
                    /\ status' = update_base_used_size(
                                     status, new_base_size - old_base_size)
                    /\ broadcast(TtlEvent(hashed_key, old_expiry, new_expiry))
                    /\ hist' = [hist EXCEPT ![hashed_key] =
                                   Last("ttl", key, object.data, new_expiry)]
                    /\ Return(t, Ret("ttl", key, "Ok", None,
                                     hist[hashed_key]))
        /\ UNCHANGED <<now, WorkerVars, NewVars>>

wipe_A(t) ==
    /\ pc[t] = "idle"
    /\ ops > 0
    /\ ops' = ops - 1
    /\ objects' = [k \in HashedKeys |-> None]
    /\ hist' = [k \in HashedKeys |-> Last("wipe", 0, 0, None)]
    /\ Continue(t, "wipe", [NoLoc EXCEPT !.ret = Ret("wipe", 0, "Ok", None,
                                                     NoLast)])
    /\ UNCHANGED <<status, now, main_q, WorkerVars, NewVars>>

wipe_B(t) ==
    /\ pc[t] = "wipe"
    /\ status' = status_clear(status)
    /\ broadcast(WipeEvent)
    /\ UNCHANGED ops
    /\ Return(t, loc[t].ret)
    /\ UNCHANGED <<objects, now, hist, WorkerVars, NewVars>>

resize_A(t, max_size) ==
    /\ pc[t] = "idle"
    /\ ops > 0
    /\ ops' = ops - 1
    /\ IF max_size = 0
       THEN /\ Return(t, Ret("resize", 0, "ZeroCacheSize", None, NoLast))
            /\ UNCHANGED status
       ELSE IF max_size = status.max_size
       THEN /\ Return(t, Ret("resize", 0, "Ok", None, NoLast))
            /\ UNCHANGED status
       ELSE /\ status' = [status EXCEPT !.max_size = max_size]
            /\ Continue(t, "resize",
                   [NoLoc EXCEPT !.event = ResizeEvent(max_size),
                                 !.ret = Ret("resize", 0, "Ok", None,
                                             NoLast)])
    /\ UNCHANGED <<objects, now, main_q, hist, WorkerVars, NewVars>>

resize_B(t) ==
    /\ pc[t] = "resize"
    /\ broadcast(loc[t].event)
    /\ UNCHANGED ops
    /\ Return(t, loc[t].ret)
    /\ UNCHANGED <<objects, status, now, hist, WorkerVars, NewVars>>

policy_A(t, policy) ==
    LET r == set_policy(status, policy)
    IN  /\ pc[t] = "idle"
        /\ ops > 0
        /\ ops' = ops - 1
        /\ IF ~is_auto(policy) /\ Position(status.policies, policy) = None
           THEN /\ Return(t, Ret("policy", 0, "UnconfiguredPolicy", None,
                                 NoLast))
                /\ UNCHANGED status
           ELSE IF r.res /= "Ok"
           THEN /\ Return(t, Ret("policy", 0, r.res, None, NoLast))
                /\ UNCHANGED status
           ELSE /\ status' = r.status
                /\ Continue(t, "policy",
                       [NoLoc EXCEPT !.event = PolicyEvent(policy),
                                     !.ret = [Ret("policy", 0, "Ok", None,
                                                  NoLast)
                                                 EXCEPT !.policy = policy]])
        /\ UNCHANGED <<objects, now, main_q, hist, WorkerVars, NewVars>>

policy_B(t) ==
    /\ pc[t] = "policy"
    /\ broadcast(loc[t].event)
    /\ UNCHANGED ops
    /\ Return(t, loc[t].ret)
    /\ UNCHANGED <<objects, status, now, hist, WorkerVars, NewVars>>

-----------------------------------------------------------------------------
(* The worker manager: every event is re-sent to the policy worker and to the
   TTL worker. *)

manager_run ==
    /\ main_q /= <<>>
    /\ main_q' = Tail(main_q)
    /\ policy_q' = Append(policy_q, Head(main_q))
    /\ ttl_q' = Append(ttl_q, Head(main_q))
    /\ UNCHANGED <<objects, status, pc, loc, ret, ops, now, trace_q, recon_q,
                   pw, tw, trace, recon, hist, NewVars>>

-----------------------------------------------------------------------------
(* The policy worker.  pw.step is "idle" between two passes of the loop,
   "pass" once the events of the pass are handled, "erase" while an erase of
   the eviction loop has removed the entry and not yet updated the status,
   "auto" when perform_auto_policy has selected a policy. *)

MapSeq(list, F(_)) == [i \in 1..Len(list) |-> F(list[i])]

PolicyWorker_new(s) ==
    [step |-> "idle",
     policy_stack |-> Some(init_policy_stack(status_policy(s), s.max_size)),
     mini_stacks |->
         MapSeq(s.policies,
                LAMBDA p : MiniStack_new(p, get_mini_stack_size(s.max_size))),
     mini_index |-> None,
     current_policy |-> status_policy(s),
     buffered_events |-> <<>>,
     evictions |-> <<>>,
     has_current_set |-> FALSE,
     object |-> None,
     auto_policy |-> None, processed |-> <<>>,
     spawned |-> <<>>,
     max_cache_size |-> s.max_size,
     last_auto_policy_time |-> None]

OnStack(w, F(_)) ==
    IF IsSome(w.policy_stack)
    THEN [w EXCEPT !.policy_stack = Some(F(Unwrap(w.policy_stack)))]
    ELSE w

OnMinis(w, F(_)) == [w EXCEPT !.mini_stacks = MapSeq(@, F)]

handle_get(w, key) ==
    LET w1 == OnStack(w, LAMBDA st : stack_update(st, key))
    IN  IF should_mini_sample(key)
        THEN OnMinis(w1, LAMBDA m : MiniStack_update_with_count(m, key))
        ELSE w1

handle_set(w, key, size_) ==
    LET w1 == OnStack(w, LAMBDA st : stack_insert(st, key, size_))
    IN  IF should_mini_sample(key)
        THEN OnMinis(w1, LAMBDA m : MiniStack_insert(m, key, size_))
        ELSE w1

handle_del(w, key) ==
    LET w1 == OnStack(w, LAMBDA st : stack_remove(st, key))
    IN  IF should_mini_sample(key)
        THEN OnMinis(w1, LAMBDA m : MiniStack_remove(m, key))
        ELSE w1

handle_resize(w, size_) ==
    OnMinis(OnStack(w, LAMBDA st : stack_resize(st, size_)),
            LAMBDA m : MiniStack_resize(m, get_mini_stack_size(size_)))

handle_wipe(w) ==
    OnMinis(OnStack(w, LAMBDA st : stack_clear(st)),
            LAMBDA m : MiniStack_clear(m))

\* handle_policy; the reconstruction thread it spawns is added to w.spawned
handle_policy(w, policy) ==
    IF is_auto(policy) \/ policy = w.current_policy THEN w
    ELSE LET found == IF \E i \in 1..Len(w.mini_stacks) :
                             w.mini_stacks[i].policy = policy
                      THEN CHOOSE i \in 1..Len(w.mini_stacks) :
                               /\ w.mini_stacks[i].policy = policy
                               /\ \A j \in 1..(i - 1) :
                                      w.mini_stacks[j].policy /= policy
                      ELSE 1
         IN  [w EXCEPT !.current_policy = policy,
                       !.policy_stack = None,
                       !.mini_index = Some(found),
                       !.spawned = Append(@, policy)]

\* one event of the drained batch: its handler, then the stack event is sent
\* to the trace worker or buffered.  r = [w, sent]; w.processed is the history
\* of the stack events of the worker, in the order it came to them
handle_event(r, event) ==
    LET w == r.w
        w1 == CASE event.type = "Get" -> handle_get(w, event.key)
                [] event.type = "Set" ->
                       [handle_set(w, event.key, event.size)
                           EXCEPT !.has_current_set = TRUE]
                [] event.type = "Del" -> handle_del(w, event.key)
                [] event.type = "Wipe" -> handle_wipe(w)
                [] event.type = "Resize" -> handle_resize(w, event.size)
                [] event.type = "Policy" -> handle_policy(w, event.policy)
                [] OTHER -> w
        stack_event == maybe_from_worker_event(event)
    IN  IF ~IsSome(stack_event) THEN [w |-> w1, sent |-> r.sent]
        ELSE IF IsSome(w1.policy_stack)
        THEN [w |-> [w1 EXCEPT !.processed =
                                   Append(@, Unwrap(stack_event))],
              sent |-> Append(r.sent, Unwrap(stack_event))]
        ELSE [w |-> [w1 EXCEPT !.buffered_events =
                                   Append(@, Unwrap(stack_event)),
                               !.processed =
                                   Append(@, Unwrap(stack_event))],
              sent |-> r.sent]

RECURSIVE handle_events(_, _)
handle_events(r, events) ==
    IF events = <<>> THEN r
    ELSE handle_events(handle_event(r, Head(events)), Tail(events))

RECURSIVE apply_buffered_events(_, _)
apply_buffered_events(w, stacks) ==
    IF stacks = <<>> THEN w
    ELSE apply_buffered_events(
             [w EXCEPT !.policy_stack =
                           Some(replay(Head(stacks), w.buffered_events)),
                       !.mini_index = None],
             Tail(stacks))

\* flush_buffered_events.  r = [w, sent]
flush_buffered_events(r) ==
    IF IsSome(r.w.mini_index) THEN r
    ELSE [w |-> [r.w EXCEPT !.buffered_events = <<>>],
          sent |-> r.sent \o r.w.buffered_events]

AUTO_POLICY_DURATION == 3600

should_poll_policy(w) ==
    IF IsSome(w.last_auto_policy_time)
    THEN now - Unwrap(w.last_auto_policy_time) > AUTO_POLICY_DURATION
    ELSE TRUE

\* min_by of get_optimal_policy: the first mini stack that no other one beats
\* on (miss ratio, overhead)
MiniLess(a, b) ==
    \/ RatioLt(MiniStack_miss_ratio(a), MiniStack_miss_ratio(b))
    \/ /\ RatioEq(MiniStack_miss_ratio(a), MiniStack_miss_ratio(b))
       /\ get_policy_overhead(a.policy) < get_policy_overhead(b.policy)

\* get_optimal_policy without the comparison with the current policy
get_optimal_policy_unguarded(w) ==
    LET minis == w.mini_stacks
        optimal == CHOOSE i \in 1..Len(minis) :
                       /\ \A j \in 1..Len(minis) : ~MiniLess(minis[j], minis[i])
                       /\ \A j \in 1..(i - 1) : MiniLess(minis[i], minis[j])
    IN  Some(minis[optimal].policy)

get_optimal_policy(w) ==
    LET minis == w.mini_stacks
        is_current(i) == minis[i].policy = w.current_policy
        optimal == CHOOSE i \in 1..Len(minis) :
                       /\ \A j \in 1..Len(minis) : ~MiniLess(minis[j], minis[i])
                       /\ \A j \in 1..(i - 1) : MiniLess(minis[i], minis[j])
    IN  IF ~\E i \in 1..Len(minis) : is_current(i) THEN None
        ELSE LET current == CHOOSE i \in 1..Len(minis) :
                                /\ is_current(i)
                                /\ \A j \in 1..(i - 1) : ~is_current(j)
             IN  IF RatioLt(MiniStack_miss_ratio(minis[optimal]),
                            MiniStack_miss_ratio(minis[current]))
                 THEN Some(minis[optimal].policy)
                 ELSE None

\* perform_auto_policy: r = [w, policy], policy the Option<PaperPolicy>
perform_auto_policy(w, s) ==
    IF w.has_current_set \/ ~s.is_auto_policy \/ IsSome(w.mini_index)
    THEN [w |-> w, policy |-> None]
    ELSE IF ~should_poll_policy(w) THEN [w |-> w, policy |-> None]
    ELSE [w |-> [w EXCEPT !.last_auto_policy_time = Some(now)],
          policy |-> get_optimal_policy(w)]

\* the loop condition of apply_evictions and apply_mini_evictions
over_max_size(w, s) ==
    U64Gt(used_size(s, w.current_policy), w.max_cache_size)

\* a pass of the loop has something to do
has_work(w) ==
    \/ policy_q /= <<>>
    \/ recon_q /= <<>>
    \/ w.buffered_events /= <<>> /\ ~IsSome(w.mini_index)
    \/ U64Gt(used_size(status, w.current_policy), status.max_size)
    \/ /\ status.is_auto_policy /\ ~IsSome(w.mini_index)
       /\ should_poll_policy(w)

\* the worker after the pop r of its interim mini stack, of its stack
evict_popped_mini(w, r) ==
    [w |-> [w EXCEPT !.mini_stacks[Unwrap(w.mini_index)] = r.mini],
     key |-> r.key]

evict_popped_stack(w, r) ==
    [w |-> [w EXCEPT !.policy_stack = Some(r.stack)], key |-> r.key]

\* pop of the evict source: r = [w, key]
evict_pop(w) ==
    IF IsSome(w.mini_index)
    THEN evict_popped_mini(w,
             MiniStack_pop(w.mini_stacks[Unwrap(w.mini_index)]))
    ELSE evict_popped_stack(w, stack_pop(Unwrap(w.policy_stack)))

\* erase of the key that was popped
apply_evictions_erase(r, targets) ==
    /\ IF targets = {}
       THEN /\ pw' = r.w        \* erase: Err(Internal), continue
            /\ UNCHANGED <<objects, hist>>
       ELSE \E k \in targets :
                IF ~IsSome(objects[k])
                THEN /\ pw' = r.w   \* erase: Err(KeyNotFound), continue
                     /\ UNCHANGED <<objects, hist>>
                ELSE /\ objects' = [objects EXCEPT ![k] = None]
                     /\ hist' = [hist EXCEPT ![k].evicted = TRUE]
                     /\ pw' = [r.w EXCEPT !.step = "erase",
                                          !.object = objects[k]]

apply_evictions_popped(r) == apply_evictions_erase(r, erase_targets(r.key))

\* one iteration of the eviction loop up to the removal of the entry
apply_evictions_A ==
    /\ pw.step = "pass"
    /\ over_max_size(pw, status)
    /\ apply_evictions_popped(evict_pop(pw))
    /\ UNCHANGED <<status, pc, loc, ret, ops, now, main_q, policy_q,
                   ttl_q, trace_q, recon_q, tw, trace, recon, NewVars>>

\* the rest of the iteration: the status update of erase, the Del event
apply_evictions_B ==
    LET object == Unwrap(pw.object)
        key == hash_key(object.key)
        w1 == [pw EXCEPT !.step = "pass", !.object = None]
    IN  /\ pw.step = "erase"
        /\ status' = erase_status(status, object)
        /\ pw' = IF erase_result(object) /= "Ok" THEN w1
                 ELSE [w1 EXCEPT
                          !.buffered_events = Append(@, StackDel(key)),
                          !.processed = Append(@, StackDel(key)),
                          !.evictions = IF IsSome(pw.mini_index)
                                        THEN Append(@, key) ELSE @]
        /\ UNCHANGED <<objects, pc, loc, ret, ops, now, main_q, policy_q,
                       ttl_q, trace_q, recon_q, tw, trace, recon, hist,
                       NewVars>>

RECURSIVE remove_evictions(_, _, _)
remove_evictions(minis, mini_index, evictions) ==
    IF evictions = <<>> THEN minis
    ELSE remove_evictions(
             [i \in 1..Len(minis) |->
                 IF i /= mini_index
                 THEN MiniStack_remove(minis[i], Head(evictions))
                 ELSE minis[i]],
             mini_index, Tail(evictions))

\* the end of a pass: the mini stacks forget the interim evictions, then
\* perform_auto_policy; the policy it selects is applied by policy_run_auto.
\* [w, status, spawned]
end_of_pass(w, s) ==
    LET w1 == IF IsSome(w.mini_index)
              THEN [w EXCEPT !.mini_stacks =
                       remove_evictions(@, Unwrap(w.mini_index), w.evictions)]
              ELSE w
        r == perform_auto_policy(w1, s)
        w2 == [r.w EXCEPT !.step = "idle", !.evictions = <<>>]
    IN  IF IsSome(r.policy)
        THEN [w |-> [w2 EXCEPT !.step = "auto", !.auto_policy = r.policy],
              status |-> s, spawned |-> <<>>]
        ELSE [w |-> w2, status |-> s, spawned |-> <<>>]

\* run: the events of the pass, the reconstructed stacks, the flush and the
\* first test of the eviction loop; when nothing is to evict the pass ends
policy_run_events ==
    LET r0 == handle_events(
                  [w |-> [pw EXCEPT !.has_current_set = FALSE],
                   sent |-> <<>>], policy_q)
        w1 == apply_buffered_events(r0.w, recon_q)
        r2 == flush_buffered_events([w |-> w1, sent |-> r0.sent])
        w2 == [r2.w EXCEPT !.spawned = <<>>, !.evictions = <<>>,
                           !.max_cache_size = status.max_size]
        e == end_of_pass(w2, status)
    IN  /\ pw.step = "idle"
        /\ has_work(pw)
        /\ trace_q' = trace_q \o r2.sent
        /\ policy_q' = <<>>
        /\ recon_q' = <<>>
        /\ IF over_max_size(w2, status)
           THEN /\ pw' = [w2 EXCEPT !.step = "pass"]
                /\ recon' = recon \o r2.w.spawned
                /\ UNCHANGED status
           ELSE /\ pw' = e.w
                /\ recon' = recon \o r2.w.spawned \o e.spawned
                /\ status' = e.status
        /\ UNCHANGED <<objects, pc, loc, ret, ops, now, main_q, ttl_q, tw,
                       trace, hist, NewVars>>

\* run: the eviction loop has ended
policy_run_end ==
    LET e == end_of_pass(pw, status)
    IN  /\ pw.step = "pass"
        /\ ~over_max_size(pw, status)
        /\ pw' = e.w
        /\ status' = e.status
        /\ recon' = recon \o e.spawned
        /\ UNCHANGED <<objects, pc, loc, ret, ops, now, main_q, policy_q,
                       ttl_q, trace_q, recon_q, tw, trace, hist, NewVars>>

\* run: the policy selected by perform_auto_policy is stored in the status
\* and the worker switches to it
policy_run_auto ==
    LET policy == Unwrap(pw.auto_policy)
        w1 == handle_policy([pw EXCEPT !.step = "idle", !.auto_policy = None,
                                       !.spawned = <<>>], policy)
    IN  /\ pw.step = "auto"
        /\ status' = set_auto_policy(status, policy).status
        /\ pw' = [w1 EXCEPT !.spawned = <<>>]
        /\ recon' = recon \o w1.spawned
        /\ UNCHANGED <<objects, pc, loc, ret, ops, now, main_q, policy_q,
                       ttl_q, trace_q, recon_q, tw, trace, hist, NewVars>>

\* a reconstruction thread: replays the trace into a fresh stack and sends it
\* if the policy is still the configured one
reconstruct(i) ==
    LET policy == recon[i]
        stack == replay(init_policy_stack(policy, status.max_size), trace)
    IN  /\ i \in 1..Len(recon)
        /\ recon' = RemoveAt(recon, i)
        /\ recon_q' = IF policy = pw.current_policy
                      THEN Append(recon_q, stack) ELSE recon_q
        /\ UNCHANGED <<objects, status, pc, loc, ret, ops, now, main_q,
                       policy_q, ttl_q, trace_q, pw, tw, trace, hist,
                       NewVars>>

\* the trace worker: a Wipe deletes the fragments, the other events are
\* appended to the latest fragment
RECURSIVE trace_write(_, _)
trace_write(fragments, events) ==
    IF events = <<>> THEN fragments
    ELSE trace_write(IF Head(events).type = "Wipe" THEN <<>>
                     ELSE Append(fragments, Head(events)),
                     Tail(events))

\* The fragments are read by reconstruction threads only, so the worker is
\* scheduled while one is running; it may have taken any prefix of the events
\* sent so far.
trace_run ==
    /\ recon /= <<>>
    /\ \E n \in 1..Len(trace_q) :
           /\ trace' = trace_write(trace, SubSeq(trace_q, 1, n))
           /\ trace_q' = SubSeq(trace_q, n + 1, Len(trace_q))
    /\ UNCHANGED <<objects, status, pc, loc, ret, ops, now, main_q, policy_q,
                   ttl_q, recon_q, pw, tw, recon, hist, NewVars>>

-----------------------------------------------------------------------------
(* The TTL worker.  The expiry index is the set of <<expiry, hashed key>>
   pairs held by the BTreeMap of key sets. *)

Expiries_insert(expiries, key, expiry) ==
    IF ~IsSome(expiry) THEN expiries
    ELSE expiries \cup {<<Unwrap(expiry), key>>}

Expiries_remove(expiries, key, expiry) ==
    IF ~IsSome(expiry) THEN expiries
    ELSE expiries \ {<<Unwrap(expiry), key>>}

\* pop_expired: the entries that may be popped next, those of the earliest
\* expiry when it is at or before now
pop_expired(expiries, now_) ==
    {e \in expiries : /\ e[1] <= now_
                      /\ \A f \in expiries : e[1] <= f[1]}

ttl_handle_event(expiries, event) ==
    CASE event.type = "Set" ->
            Expiries_insert(
                IF IsSome(event.old_info)
                THEN Expiries_remove(expiries, event.key,
                                     Unwrap(event.old_info).expiry)
                ELSE expiries,
                event.key, event.expiry)
      [] event.type = "Del" ->
            Expiries_remove(expiries, event.key, event.expiry)
      [] event.type = "Ttl" ->
            Expiries_insert(
                Expiries_remove(expiries, event.key, event.old_expiry),
                event.key, event.expiry)
      [] event.type = "Wipe" -> {}
      [] OTHER -> expiries

RECURSIVE ttl_handle_events(_, _)
ttl_handle_events(expiries, events) ==
    IF events = <<>> THEN expiries
    ELSE ttl_handle_events(ttl_handle_event(expiries, Head(events)),
                           Tail(events))

TtlWorker_new == [step |-> "idle", expiries |-> {}, now |-> 0,
                  object |-> None]

\* the worker's step after a pop: back to sleep when nothing else is due
ttl_next_step(expiries, now_) ==
    IF pop_expired(expiries, now_) = {} THEN "idle" ELSE "pass"

\* run: now is taken, then the pending events are applied to the index
ttl_run_events ==
    LET expiries == ttl_handle_events(tw.expiries, ttl_q)
    IN  /\ tw.step = "idle"
        /\ ttl_q /= <<>>
        /\ tw' = [tw EXCEPT !.step = ttl_next_step(expiries, now),
                            !.now = now, !.expiries = expiries]
        /\ ttl_q' = <<>>
        /\ UNCHANGED <<objects, status, pc, loc, ret, ops, now, main_q,
                       policy_q, trace_q, recon_q, pw, trace, recon, hist,
                       NewVars>>

\* run: a pass without pending events in which some expiry is due
ttl_run_due ==
    /\ tw.step = "idle"
    /\ ttl_q = <<>>
    /\ pop_expired(tw.expiries, now) /= {}
    /\ tw' = [tw EXCEPT !.step = "pass", !.now = now]
    /\ UNCHANGED <<objects, status, pc, loc, ret, ops, now, main_q, policy_q,
                   ttl_q, trace_q, recon_q, pw, trace, recon, hist, NewVars>>

\* run: one expired key is popped and erase removes its entry
ttl_run_pop ==
    /\ tw.step = "pass"
    /\ \E e \in pop_expired(tw.expiries, tw.now) :
           LET key == e[2]
               expiries == tw.expiries \ {e}
           IN  IF ~IsSome(objects[key])
               THEN /\ tw' = [tw EXCEPT
                                 !.expiries = expiries,
                                 !.step = ttl_next_step(expiries, tw.now)]
                    /\ UNCHANGED <<objects, hist>>
               ELSE /\ objects' = [objects EXCEPT ![key] = None]
                    /\ hist' = [hist EXCEPT ![key].expired = TRUE]
                    /\ tw' = [tw EXCEPT !.expiries = expiries,
                                        !.step = "erase",
                                        !.object = objects[key]]
    /\ UNCHANGED <<status, pc, loc, ret, ops, now, main_q, policy_q, ttl_q,
                   trace_q, recon_q, pw, trace, recon, NewVars>>

\* run: the status update of that erase
ttl_run_erase ==
    /\ tw.step = "erase"
    /\ status' = erase_status(status, Unwrap(tw.object))
    /\ tw' = [tw EXCEPT !.step = ttl_next_step(tw.expiries, tw.now),
                        !.object = None]
    /\ UNCHANGED <<objects, pc, loc, ret, ops, now, main_q, policy_q, ttl_q,
                   trace_q, recon_q, pw, trace, recon, hist, NewVars>>

\* some expiry is held somewhere: by an object, by the index, by an event
ExpiryPending ==
    \/ \E k \in HashedKeys :
           IF IsSome(objects[k]) THEN IsSome(Unwrap(objects[k]).expiry)
           ELSE FALSE
    \/ tw.expiries /= {}
    \/ \E i \in 1..Len(main_q) :
           IsSome(main_q[i].expiry) \/ IsSome(main_q[i].old_expiry)
    \/ \E i \in 1..Len(ttl_q) :
           IsSome(ttl_q[i].expiry) \/ IsSome(ttl_q[i].old_expiry)

\* time passes; the clock is watched only while some expiry is pending
Tick ==
    /\ now < MaxTime
    /\ ExpiryPending
    /\ now' = now + 1
    /\ UNCHANGED <<objects, status, pc, loc, ret, ops, main_q, policy_q,
                   ttl_q, trace_q, recon_q, pw, tw, trace, recon, hist,
                   NewVars>>

-----------------------------------------------------------------------------
(* Construction *)

is_multiset(list) ==
    \E i, j \in 1..Len(list) : i /= j /\ list[i] = list[j]

\* with_hasher with the duplicate check moved before the Auto check
with_hasher_dup_first(max_size, policies, policy) ==
    LET new_status == AtomicStatus_new(max_size, policies, policy)
        Err(e) == [res |-> e, status |-> NoStatus]
    IN  IF max_size = 0 THEN Err("ZeroCacheSize")
        ELSE IF policies = <<>> THEN Err("EmptyPolicies")
        ELSE IF is_multiset(policies) THEN Err("DuplicatePolicies")
        ELSE IF IsSome(Position(policies, Auto))
        THEN Err("ConfiguredAutoPolicy")
        ELSE IF ~is_auto(policy) /\ ~IsSome(Position(policies, policy))
        THEN Err("UnconfiguredPolicy")
        ELSE new_status

\* PaperCache::with_hasher: [res, status]
with_hasher(max_size, policies, policy) ==
    LET new_status == AtomicStatus_new(max_size, policies, policy)
        Err(e) == [res |-> e, status |-> NoStatus]
    IN  IF max_size = 0 THEN Err("ZeroCacheSize")
        ELSE IF policies = <<>> THEN Err("EmptyPolicies")
        ELSE IF IsSome(Position(policies, Auto))
        THEN Err("ConfiguredAutoPolicy")
        ELSE IF is_multiset(policies) THEN Err("DuplicatePolicies")
        ELSE IF ~is_auto(policy) /\ ~IsSome(Position(policies, policy))
        THEN Err("UnconfiguredPolicy")
        ELSE new_status

\* the policy worker of a cache that was not built
NoWorker ==
    [step |-> "idle", policy_stack |-> None, mini_stacks |-> <<>>,
     mini_index |-> None, current_policy |-> "", buffered_events |-> <<>>,
     evictions |-> <<>>, has_current_set |-> FALSE, object |-> None,
     auto_policy |-> None, processed |-> <<>>, spawned |-> <<>>,
     max_cache_size |-> 0,
     last_auto_policy_time |-> None]

NewArgs(max_size, policies, policy) ==
    [max_size |-> max_size, policies |-> policies, policy |-> policy]

\* the parts of a cache that do not depend on the arguments of new
Fresh ==
    /\ objects = [k \in HashedKeys |-> None]
    /\ pc = [t \in Threads |-> "idle"]
    /\ loc = [t \in Threads |-> NoLoc]
    /\ ret = [t \in Threads |-> NoRet]
    /\ now = 0
    /\ main_q = <<>>
    /\ policy_q = <<>>
    /\ ttl_q = <<>>
    /\ recon_q = <<>>
    /\ tw = TtlWorker_new
    /\ trace = <<>>
    /\ recon = <<>>
    /\ hist = [k \in HashedKeys |-> NoLast]

\* the state right after new(max_size, policies, policy) returned Ok
InitCache(max_size, policies, policy) ==
    /\ new_in = NewArgs(max_size, policies, policy)
    /\ new_out = "Ok"
    /\ status = with_hasher(max_size, policies, policy).status
    /\ pw = PolicyWorker_new(status)
    /\ trace_q = <<StackResize(max_size)>>
    /\ Fresh

\* the policies and sizes given to new
NewPolicies == {Auto, "Lfu", "Lru", "Fifo"}
NewMaxSizes == {0, 1, 160}

RECURSIVE ListsUpTo(_, _)
ListsUpTo(S, n) ==
    IF n = 0 THEN {<<>>}
    ELSE LET shorter == ListsUpTo(S, n - 1)
         IN  shorter \cup {Append(l, x) : l \in shorter, x \in S}

InitNew ==
    /\ new_in \in {NewArgs(m, l, p) : m \in NewMaxSizes,
                                      l \in ListsUpTo(NewPolicies, MaxPolicies),
                                      p \in NewPolicies \cup {"Mru"}}
    /\ new_out = "none"
    /\ status = NoStatus
    /\ pw = NoWorker
    /\ trace_q = <<>>
    /\ ops = 0
    /\ Fresh

\* PaperCache::new
new ==
    LET r == with_hasher(new_in.max_size, new_in.policies, new_in.policy)
    IN  /\ new_out = "none"
        /\ new_out' = r.res
        /\ status' = r.status
        /\ IF r.res = "Ok"
           THEN /\ pw' = PolicyWorker_new(r.status)
                /\ trace_q' = <<StackResize(new_in.max_size)>>
           ELSE UNCHANGED <<pw, trace_q>>
        /\ UNCHANGED <<new_in, objects, pc, loc, ret, ops, now, main_q,
                       policy_q, ttl_q, recon_q, tw, trace, recon, hist>>

NextNew == new

SpecNew == InitNew /\ [][NextNew]_vars

-----------------------------------------------------------------------------
(* The cache under one foreground thread: the API without expiries.  No object
   carries a TTL here, so the TTL worker only drains its events. *)

Keys == {1, 2}
Values == {0, 4}
Sizes == {0, 20, 160}
Policies == {Auto, "Lru", "Lfu", "Fifo"}

Init == InitCache(160, <<"Lru", "Lfu">>, "Lru") /\ ops = MaxOps

\* the second step of the call in progress
Finish(t) ==
    \/ get_B(t)
    \/ set_B(t)
    \/ del_B(t)
    \/ wipe_B(t)
    \/ resize_B(t)
    \/ policy_B(t)

PolicyWorker ==
    \/ policy_run_events
    \/ apply_evictions_A
    \/ apply_evictions_B
    \/ policy_run_end
    \/ \E i \in 1..Len(recon) : reconstruct(i)
    \/ trace_run

Call(t) ==
    \/ \E key \in Keys : get_A(t, key)
    \/ \E key \in Keys : peek(t, key)
    \/ \E key \in Keys : has(t, key)
    \/ \E key \in Keys : size(t, key)
    \/ status_call(t)
    \/ \E key \in Keys, value \in Values : set_A(t, key, value, None)
    \/ \E key \in Keys : del_A(t, key)
    \/ wipe_A(t)
    \/ \E max_size \in Sizes : resize_A(t, max_size)
    \/ \E policy \in Policies : policy_A(t, policy)

Next ==
    \/ Call(1)
    \/ Finish(1)
    \/ manager_run
    \/ PolicyWorker
    \/ ttl_run_events

Spec == Init /\ [][Next]_vars

-----------------------------------------------------------------------------
(* The cache under one foreground thread: expiries.  Objects carry TTLs, the
   clock ticks and the TTL worker prunes. *)

TtlKeys == {1}
Ttls == {None, Some(1)}
NewTtls == {None, Some(0), Some(2)}

InitTtl == InitCache(160, <<"Lru", "Lfu">>, "Lru") /\ ops = MaxOpsTtl

TtlWorker ==
    \/ ttl_run_events
    \/ ttl_run_due
    \/ ttl_run_pop
    \/ ttl_run_erase

CallTtl(t) ==
    \/ \E key \in TtlKeys : get_A(t, key)
    \/ \E key \in TtlKeys, ttl_ \in Ttls : set_A(t, key, 4, ttl_)
    \/ \E key \in TtlKeys : del_A(t, key)
    \/ \E key \in TtlKeys, ttl_ \in NewTtls : ttl(t, key, ttl_)
    \/ policy_A(t, "Lfu")

NextTtl ==
    \/ CallTtl(1)
    \/ get_B(1)
    \/ set_B(1)
    \/ del_B(1)
    \/ policy_B(1)
    \/ manager_run
    \/ PolicyWorker
    \/ TtlWorker
    \/ Tick

SpecTtl == InitTtl /\ [][NextTtl]_vars

-----------------------------------------------------------------------------
(* The cache under two foreground threads. *)

ConcKeys == {1}
ConcTtls == {Some(2)}
ConcPolicies == {"Lru", "Lfu"}

InitConc == InitCache(160, <<"Lru", "Lfu">>, "Lfu") /\ ops = MaxOpsConc

CallConc(t) ==
    \/ \E key \in ConcKeys, ttl_ \in ConcTtls : set_A(t, key, 4, ttl_)
    \/ \E key \in ConcKeys : del_A(t, key)
    \/ wipe_A(t)
    \/ \E policy \in ConcPolicies : policy_A(t, policy)

FinishConc(t) ==
    \/ set_B(t)
    \/ del_B(t)
    \/ wipe_B(t)
    \/ policy_B(t)

NextConc ==
    \/ \E t \in Threads : CallConc(t)
    \/ \E t \in Threads : FinishConc(t)
    \/ manager_run
    \/ PolicyWorker
    \/ ttl_run_events

SpecConc == InitConc /\ [][NextConc]_vars

-----------------------------------------------------------------------------
(* The cache under two foreground threads that set and delete: no TTL, no
   policy switch, and the objects fit, so that nothing is evicted. *)

RaceKeys == {1, 2}

InitRace == InitCache(160, <<"Lru", "Lfu">>, "Lru") /\ ops = MaxOpsRace

CallRace(t) ==
    \/ \E key \in RaceKeys : set_A(t, key, 4, None)
    \/ \E key \in RaceKeys : del_A(t, key)

NextRace ==
    \/ \E t \in Threads : CallRace(t)
    \/ \E t \in Threads : set_B(t)
    \/ \E t \in Threads : del_B(t)
    \/ manager_run
    \/ policy_run_events
    \/ ttl_run_events

SpecRace == InitRace /\ [][NextRace]_vars

-----------------------------------------------------------------------------
(* The cache under one foreground thread and fair scheduling: evictions.  The
   cache is resized to the base size of one object, so that every object set
   is evicted, in normal mode or, after a policy switch, in interim mode. *)

EvictKeys == {1}
EvictValues == {0}
EvictSizes == {20}

InitEvict == InitCache(160, <<"Lru", "Lfu">>, "Lru") /\ ops = MaxOpsEvict

CallEvict(t) ==
    \/ \E key \in EvictKeys, value \in EvictValues :
           set_A(t, key, value, None)
    \/ \E key \in EvictKeys : del_A(t, key)
    \/ wipe_A(t)
    \/ \E max_size \in EvictSizes : resize_A(t, max_size)
    \/ policy_A(t, "Lfu")

FinishEvict(t) ==
    \/ set_B(t)
    \/ del_B(t)
    \/ wipe_B(t)
    \/ resize_B(t)
    \/ policy_B(t)

\* the iterations of the eviction loop and its end
EvictionLoop ==
    \/ apply_evictions_A
    \/ apply_evictions_B
    \/ policy_run_end

NextEvict ==
    \/ CallEvict(1)
    \/ FinishEvict(1)
    \/ manager_run
    \/ policy_run_events
    \/ EvictionLoop
    \/ \E i \in 1..Len(recon) : reconstruct(i)
    \/ trace_run
    \/ ttl_run_events

\* a call that has begun goes on, and the policy worker, once in its eviction
\* loop, keeps running it (the loop does not sleep)
SpecFair ==
    /\ InitEvict /\ [][NextEvict]_vars
    /\ WF_vars(FinishEvict(1))
    /\ WF_vars(EvictionLoop)

-----------------------------------------------------------------------------
(* The cache under one foreground thread: two raw keys of the same hash. *)

CollKeys == {1, 3}
CollTtls == {None, Some(2)}

InitColl == InitCache(160, <<"Lru", "Lfu">>, "Lru") /\ ops = MaxOpsColl

CallColl(t) ==
    \/ \E key \in CollKeys : get_A(t, key)
    \/ \E key \in CollKeys : peek(t, key)
    \/ \E key \in CollKeys : has(t, key)
    \/ \E key \in CollKeys : size(t, key)
    \/ \E key \in CollKeys, ttl_ \in CollTtls : set_A(t, key, 4, ttl_)
    \/ \E key \in CollKeys : del_A(t, key)
    \/ \E key \in CollKeys, ttl_ \in CollTtls : ttl(t, key, ttl_)

NextColl ==
    \/ CallColl(1)
    \/ get_B(1)
    \/ set_B(1)
    \/ del_B(1)
    \/ manager_run
    \/ policy_run_events
    \/ ttl_run_events

SpecColl == InitColl /\ [][NextColl]_vars

-----------------------------------------------------------------------------
(* The cache under one foreground thread: the automatic policy.  The cache is
   large enough for the mini stacks to hold two objects, so that the mini
   stacks of two policies can come to differ. *)

\* the workload: three distinct sampled keys are set in turn, the first one
\* is read, and the automatic policy is switched on and off
AutoKeys == <<1, 4, 5>>
AutoGets == {1}
MaxGetsAuto == 2

InitAuto == InitCache(50000, <<"Lru", "Lfu">>, "Lru") /\ ops = MaxOpsAuto

CallAuto(t) ==
    \/ /\ status.total_sets < Len(AutoKeys)
       /\ set_A(t, AutoKeys[status.total_sets + 1], 4, None)
    \/ /\ status.total_gets < MaxGetsAuto
       /\ \E key \in AutoGets : get_A(t, key)
    \/ /\ ~status.is_auto_policy
       /\ policy_A(t, Auto)
    \/ /\ status.is_auto_policy
       /\ policy_A(t, "Lru")

NextAuto ==
    \/ CallAuto(1)
    \/ get_B(1)
    \/ set_B(1)
    \/ policy_B(1)
    \/ manager_run
    \/ policy_run_events
    \/ policy_run_auto
    \/ \E i \in 1..Len(recon) : reconstruct(i)
    \/ trace_run

SpecAuto == InitAuto /\ [][NextAuto]_vars

-----------------------------------------------------------------------------
(* Properties of construction (SpecNew) *)

ConstructionErrors ==
    {"ZeroCacheSize", "EmptyPolicies", "ConfiguredAutoPolicy",
     "DuplicatePolicies", "UnconfiguredPolicy"}

\* the first applicable error of new, "" when its arguments are valid
FirstError(in) ==
    IF in.max_size = 0 THEN "ZeroCacheSize"
    ELSE IF Len(in.policies) = 0 THEN "EmptyPolicies"
    ELSE IF \E i \in 1..Len(in.policies) : in.policies[i] = Auto
    THEN "ConfiguredAutoPolicy"
    ELSE IF Cardinality({in.policies[i] : i \in 1..Len(in.policies)})
                < Len(in.policies)
    THEN "DuplicatePolicies"
    ELSE IF in.policy /= Auto
            /\ \A i \in 1..Len(in.policies) : in.policies[i] /= in.policy
    THEN "UnconfiguredPolicy"
    ELSE ""

\* C7: once new has returned, arguments with an applicable error gave the
\* first applicable one in the order ZeroCacheSize, EmptyPolicies,
\* ConfiguredAutoPolicy, DuplicatePolicies, UnconfiguredPolicy, and no cache
\* was built: there is no status and no worker.
C7_ConstructionErrorOrder ==
    (new_out /= "none" /\ FirstError(new_in) /= "") =>
        /\ new_out = FirstError(new_in)
        /\ status = NoStatus
        /\ pw = NoWorker
        /\ trace_q = <<>>

\* new has failed on arguments in which three errors apply at once
C7_Witness ==
    /\ new_out = "ConfiguredAutoPolicy"
    /\ is_multiset(new_in.policies)
    /\ new_in.policy = "Mru"

\* C8: new with the initial policy Auto and a valid policy list returns a
\* cache whose auto flag is set and whose active policy is a configured one.
C8_AutoConstructs ==
    (new_out /= "none" /\ new_in.policy = Auto /\ FirstError(new_in) = "") =>
        /\ new_out = "Ok"
        /\ status.is_auto_policy
        /\ \E i \in 1..Len(new_in.policies) :
               new_in.policies[i] = status_policy(status)

-----------------------------------------------------------------------------
(* Properties of the API under one foreground thread (Spec) *)

\* thread t completes a call in this step
Returns(t) == ret'[t].n /= ret[t].n

\* thread t begins the call op(key) in this step; Called(t) is what the call
\* returns, or will return from its second step
Begins(t) == pc[t] = "idle" /\ (Returns(t) \/ pc'[t] /= "idle")
Called(t) == IF Returns(t) THEN ret'[t] ELSE loc'[t].ret

QueuesUnchanged == main_q' = main_q /\ policy_q' = policy_q /\ ttl_q' = ttl_q

\* C2: a get or peek of k that finds the slot as set(k, v, None) left it (not
\* evicted, not expired since) returns v; one that finds the slot as a del(k)
\* that returned Ok left it returns KeyNotFound, and has(k) is false.
C2_RoundTrip ==
    \A t \in Threads :
        LET r == ret[t]
            e == r.expect
        IN  (r.op \in {"get", "peek", "has"} /\ e.key = r.key
                 /\ ~e.evicted /\ ~e.expired) =>
                /\ (e.kind = "set" /\ e.expiry = None
                        /\ r.op \in {"get", "peek"}) =>
                       (r.res = "Ok" /\ r.val = Some(e.value))
                /\ (e.kind = "del" /\ r.op \in {"get", "peek"}) =>
                       r.res = "KeyNotFound"
                /\ (e.kind = "del" /\ r.op = "has") => r.res = "false"

\* a get has looked for a key after set and del of that key returned Ok
C2_Witness ==
    /\ ret[1].op = "get"
    /\ ret[1].res = "KeyNotFound"
    /\ ret[1].expect.kind = "del"
    /\ ret[1].expect.key = ret[1].key

\* the size of the object that set(key, value, ttl) builds
SetSize(key, arg) == base_size(Object_new(key, arg[1], arg[2]))

\* C6: a set of a value of size 0 returns ZeroValueSize, one whose object is
\* larger than max_size returns ExceedingValueSize, and in both cases the
\* map, the status (base_used_size, num_objects, total_sets) and the event
\* queues are left as they were; a set whose object is no larger than
\* max_size, an exact fit included, is accepted and returns Ok.
C6_SetSizeErrors ==
    [][\A t \in Threads :
           (Begins(t) /\ Called(t).op = "set") =>
               LET size_ == SetSize(Called(t).key, Called(t).arg)
                   Refused(e) ==
                       /\ Returns(t)
                       /\ ret'[t].res = e
                       /\ objects' = objects
                       /\ status' = status
                       /\ QueuesUnchanged
               IN  IF ValueSize(Called(t).arg[1]) = 0
                   THEN Refused("ZeroValueSize")
                   ELSE IF size_ > status.max_size
                   THEN Refused("ExceedingValueSize")
                   ELSE Called(t).res = "Ok"]_vars

\* the slot of key holds no object of that key
Absent(key) ==
    IF IsSome(objects[hash_key(key)])
    THEN Unwrap(objects[hash_key(key)]).key /= key
    ELSE TRUE

\* C9: a del of a key that is not in the map returns KeyNotFound and leaves
\* the map, the status (total_dels, num_objects, base_used_size) and the event
\* queues as they were; a del(k) called right after a del(k) that returned Ok
\* returns KeyNotFound.
C9_IdempotentDel ==
    [][\A t \in Threads :
           (Begins(t) /\ Called(t).op = "del") =>
               /\ Absent(Called(t).key) =>
                      /\ Returns(t)
                      /\ ret'[t].res = "KeyNotFound"
                      /\ objects' = objects
                      /\ status' = status
                      /\ QueuesUnchanged
               /\ (ret[t].op = "del" /\ ret[t].res = "Ok"
                       /\ ret[t].key = Called(t).key) =>
                      (Returns(t) /\ ret'[t].res = "KeyNotFound")]_vars

\* a del has returned KeyNotFound for a key whose last change was a del that
\* returned Ok
C9_Witness ==
    /\ ret[1].op = "del"
    /\ ret[1].res = "KeyNotFound"
    /\ ret[1].expect.kind = "del"
    /\ ret[1].expect.key = ret[1].key

\* the Policy(p) event of a policy call is still on its way to the worker
Undelivered(p) ==
    \/ \E i \in 1..Len(main_q) : main_q[i] = PolicyEvent(p)
    \/ \E i \in 1..Len(policy_q) : policy_q[i] = PolicyEvent(p)

-----------------------------------------------------------------------------
(* Properties of expiry (SpecTtl) *)

\* C4: a get of k that finds the slot as set(k, v, Some(t)) left it, with no
\* eviction since, returns v when called before the expiry instant and
\* KeyNotFound when called from the expiry instant on.
C4_TtlMonotone ==
    \A t \in Threads :
        LET r == ret[t]
            e == r.expect
        IN  (r.op = "get" /\ e.kind = "set" /\ e.key = r.key
                 /\ IsSome(e.expiry) /\ ~e.evicted) =>
                IF r.at < Unwrap(e.expiry)
                THEN r.res = "Ok" /\ r.val = Some(e.value)
                ELSE r.res = "KeyNotFound"

\* C5: a get of k that finds the slot as a ttl(k, new_ttl) that returned Ok
\* left it, with no eviction since, succeeds when called before the new expiry
\* instant, and at any time when the new TTL is None or 0.
C5_TtlReset ==
    \A t \in Threads :
        LET r == ret[t]
            e == r.expect
        IN  (r.op = "get" /\ e.kind = "ttl" /\ e.key = r.key /\ ~e.evicted
                 /\ (IF IsSome(e.expiry) THEN r.at < Unwrap(e.expiry)
                     ELSE TRUE)) =>
                (r.res = "Ok" /\ r.val = Some(e.value))

-----------------------------------------------------------------------------
(* Properties of the counters (SpecConc) *)

\* no foreground call in progress, every event delivered and handled, no
\* reconstruction running, and the policy worker's loop has nothing to do
Quiescent ==
    /\ \A t \in Threads : pc[t] = "idle"
    /\ main_q = <<>> /\ policy_q = <<>> /\ ttl_q = <<>>
    /\ recon_q = <<>> /\ recon = <<>>
    /\ pw.step = "idle" /\ tw.step = "idle"
    /\ ~has_work(pw)

RECURSIVE SumBase(_)
SumBase(keys) ==
    IF keys = {} THEN 0
    ELSE LET k == CHOOSE x \in keys : TRUE
         IN  (IF IsSome(objects[k]) THEN base_size(Unwrap(objects[k])) ELSE 0)
                 + SumBase(keys \ {k})

\* C1: once the foreground is idle and the policy worker has handled every
\* event and ended its eviction pass, the used size reported under the active
\* policy is at most max_size.
C1_UsedSizeBounded ==
    Quiescent =>
        ~U64Gt(used_size(status, status_policy(status)), status.max_size)

\* C3: in a quiescent state base_used_size is the sum of base_size over the
\* objects of the map and num_objects is the number of entries of the map.
C3_CountersMatchMap ==
    Quiescent =>
        /\ status.base_used_size = SumBase(HashedKeys)
        /\ status.num_objects =
               Cardinality({k \in HashedKeys : IsSome(objects[k])})

-----------------------------------------------------------------------------
(* Properties of colliding keys (SpecColl) *)

\* the slot of key holds an object stored under another raw key
Collides(key) ==
    IF IsSome(objects[hash_key(key)])
    THEN Unwrap(objects[hash_key(key)]).key /= key
    ELSE FALSE

\* C11: a get, peek, size, ttl or del of k2 while the slot of its hash holds
\* an object stored under another raw key returns KeyNotFound, has(k2) is
\* false, and the map, base_used_size and num_objects are left as they were;
\* a get or peek that returns Ok found an object stored under its own key.
C11_RawKeyChecked ==
    [][\A t \in Threads :
           Begins(t) =>
               LET c == Called(t)
                   slot == objects[hash_key(c.key)]
               IN  /\ (c.op \in {"get", "peek", "size", "ttl", "del", "has"}
                           /\ Collides(c.key)) =>
                          /\ c.res = (IF c.op = "has" THEN "false"
                                      ELSE "KeyNotFound")
                          /\ objects' = objects
                          /\ status'.base_used_size = status.base_used_size
                          /\ status'.num_objects = status.num_objects
                   /\ (c.op \in {"get", "peek"} /\ c.res = "Ok") =>
                          IF IsSome(slot) THEN Unwrap(slot).key = c.key
                          ELSE FALSE]_vars

\* a get of key 3 has returned KeyNotFound while the slot of its hash holds
\* the object stored under key 1
C11_Witness ==
    /\ ret[1].op = "get"
    /\ ret[1].key = 3
    /\ ret[1].res = "KeyNotFound"
    /\ IF IsSome(objects[hash_key(3)])
       THEN Unwrap(objects[hash_key(3)]).key = 1
       ELSE FALSE

-----------------------------------------------------------------------------
(* Properties of wipe (Spec) *)

\* the last foreground call was a wipe and it has returned
Wiped == \A t \in Threads : pc[t] = "idle" /\ ret[1].op = "wipe"

\* every event sent so far has been handled by the workers
Drained ==
    /\ main_q = <<>> /\ policy_q = <<>> /\ ttl_q = <<>>
    /\ recon_q = <<>> /\ recon = <<>>
    /\ pw.step = "idle" /\ tw.step = "idle"

\* C12: after wipe() has returned and before any other foreground call, the
\* map is empty and base_used_size, num_objects and the four totals are 0;
\* once the workers have handled the Wipe event the active stack, the mini
\* stacks and the expiry index are empty.
C12_WipeResets ==
    Wiped =>
        /\ \A k \in HashedKeys : ~IsSome(objects[k])
        /\ status.base_used_size = 0 /\ status.num_objects = 0
        /\ status.total_gets = 0 /\ status.total_hits = 0
        /\ status.total_sets = 0 /\ status.total_dels = 0
        /\ Drained =>
               /\ IF IsSome(pw.policy_stack)
                  THEN Unwrap(pw.policy_stack).data = <<>> ELSE FALSE
               /\ \A i \in 1..Len(pw.mini_stacks) :
                      pw.mini_stacks[i].stack.data = <<>>
               /\ tw.expiries = {}

-----------------------------------------------------------------------------
(* Properties of the automatic policy (SpecAuto) *)

\* thread t begins the call policy(p) in this step
BeginsPolicy(t, p) ==
    Begins(t) /\ Called(t).op = "policy" /\ Called(t).policy = p

\* the policy worker stores the policy it selected and switches to it
AutoSwitch == pw.step = "auto" /\ pw'.step /= "auto"

\* C13: is_auto_policy becomes true only in a policy(Auto), which sets it and
\* leaves the active policy as it was; it becomes false only in a policy(p)
\* that returns Ok, p configured and not Auto; an automatic switch of the
\* policy worker makes the selected policy the active one and leaves
\* is_auto_policy true.
C13_AutoFlag ==
    [][/\ (~status.is_auto_policy /\ status'.is_auto_policy) =>
              \E t \in Threads : BeginsPolicy(t, Auto)
       /\ \A t \in Threads :
              BeginsPolicy(t, Auto) =>
                  /\ status'.is_auto_policy
                  /\ status'.policy_index = status.policy_index
       /\ (status.is_auto_policy /\ ~status'.is_auto_policy) =>
              \E t \in Threads, p \in AllPolicies :
                  /\ BeginsPolicy(t, p)
                  /\ Called(t).res = "Ok"
                  /\ IsSome(Position(status.policies, p))
       /\ AutoSwitch =>
              /\ status_policy(status') = Unwrap(pw.auto_policy)
              /\ status'.is_auto_policy]_vars

-----------------------------------------------------------------------------
(* Properties of del on an expired object (SpecTtl) *)

\* the objects erase has removed from the map and not yet subtracted from the
\* counters: [size, count]
Removed ==
    LET of(object) == [size |-> base_size(Unwrap(object)), count |-> 1]
        zero == [size |-> 0, count |-> 0]
        d == [t \in Threads |-> IF pc[t] = "del" THEN of(loc[t].object)
                                ELSE zero]
        e == IF tw.step = "erase" THEN of(tw.object) ELSE zero
        v == IF pw.step = "erase" THEN of(pw.object) ELSE zero
    IN  [size |-> d[1].size + d[2].size + e.size + v.size,
         count |-> d[1].count + d[2].count + e.count + v.count]

\* the objects set has inserted and not yet added to the counters
Inserted ==
    LET d == [t \in Threads |->
                 IF pc[t] = "set"
                 THEN [size |-> loc[t].delta,
                       count |-> IF loc[t].is_new THEN 1 ELSE 0]
                 ELSE [size |-> 0, count |-> 0]]
    IN  [size |-> d[1].size + d[2].size, count |-> d[1].count + d[2].count]

\* every removed object is subtracted from the counters once
SubtractedOnce ==
    /\ status.base_used_size
           = SumBase(HashedKeys) + Removed.size - Inserted.size
    /\ status.num_objects
           = Cardinality({k \in HashedKeys : IsSome(objects[k])})
                 + Removed.count - Inserted.count

\* C14: a del(k) that finds k's object in the map, expired, removes it,
\* returns KeyNotFound, leaves total_dels as it was, sends no event and
\* subtracts the object's base size and one object from the counters; every
\* object removed from the map, by del, by the TTL worker or by the policy
\* worker, is subtracted exactly once.
C14_DelExpired ==
    /\ []SubtractedOnce
    /\ [][\A t \in Threads :
              /\ (Begins(t) /\ Called(t).op = "del") =>
                     LET slot == objects[hash_key(Called(t).key)]
                     IN  IF IsSome(slot)
                         THEN key_matches(Unwrap(slot), Called(t).key) =>
                                  /\ pc'[t] = "del"
                                  /\ objects'[hash_key(Called(t).key)] = None
                         ELSE /\ Called(t).res = "KeyNotFound"
                              /\ status' = status
              /\ (pc[t] = "del" /\ Returns(t)) =>
                     LET object == Unwrap(loc[t].object)
                     IN  is_expired(object) =>
                             /\ ret'[t].res = "KeyNotFound"
                             /\ status'.total_dels = status.total_dels
                             /\ status'.base_used_size
                                    = status.base_used_size
                                          - base_size(object)
                             /\ status'.num_objects = status.num_objects - 1
                             /\ objects'[hash_key(object.key)] = None
                             /\ main_q' = main_q]_vars

\* del has removed an expired object and returned KeyNotFound
C14_Witness ==
    /\ pc[1] = "idle"
    /\ ret[1].op = "del" /\ ret[1].res = "KeyNotFound"
    /\ hist[hash_key(ret[1].key)].kind = "gone"
    /\ IsSome(ret[1].expect.expiry)
    /\ status.total_dels = 0

-----------------------------------------------------------------------------
(* Properties of the get counters (Spec) *)

\* the threads that begin a get in this step, and those whose get is a hit
BeginGet == {t \in Threads : Begins(t) /\ Called(t).op = "get"}
BeginHit == {t \in BeginGet : Called(t).res = "Ok"}

\* C15: total_gets and total_hits are 0 after construction and after a wipe,
\* every get call adds one to total_gets and, when it returns Ok, one to
\* total_hits, and nothing else changes them; the miss ratio is
\* 1 - total_hits / total_gets, and 1 when total_gets is 0.
C15_GetCounters ==
    /\ status.total_gets = 0 /\ status.total_hits = 0
    /\ [][IF \E t \in Threads : pc[t] = "wipe" /\ Returns(t)
          THEN status'.total_gets = 0 /\ status'.total_hits = 0
          ELSE /\ status'.total_gets
                      = status.total_gets + Cardinality(BeginGet)
               /\ status'.total_hits
                      = status.total_hits + Cardinality(BeginHit)]_vars
    /\ [](miss_ratio(status) =
              IF status.total_gets = 0 THEN <<1, 1>>
              ELSE <<status.total_gets - status.total_hits,
                     status.total_gets>>)

\* two gets, one of them a hit: the miss ratio is 1/2
C15_Witness ==
    /\ pc[1] = "idle" /\ ret[1].op = "get"
    /\ status.total_gets = 2 /\ status.total_hits = 1
    /\ miss_ratio(status) = <<1, 2>>

-----------------------------------------------------------------------------
(* Properties of the policy switch (Spec) *)

\* the policy worker installs a reconstructed stack in this step
Installs == pw.step = "idle" /\ recon_q /= <<>> /\ recon_q' = <<>>

\* C16: the reconstructed stack the policy worker installs is the stack of
\* its policy that results from applying, to an empty one, every stack event
\* the worker has come to so far, in that order.
C16_LosslessSwitch ==
    [][Installs =>
           LET stack == Unwrap(pw'.policy_stack)
           IN  stack = replay(init_policy_stack(stack.policy,
                                                status.max_size),
                              pw'.processed)]_vars

-----------------------------------------------------------------------------
(* Properties of the active stack under concurrent set and del (SpecRace) *)

\* C17: in a quiescent state every hashed key of the object map is in the
\* active policy stack.
C17_MapWithinStack ==
    Quiescent =>
        \A k \in HashedKeys :
            IsSome(objects[k]) =>
                /\ IsSome(pw.policy_stack)
                /\ stack_contains(Unwrap(pw.policy_stack), k)

-----------------------------------------------------------------------------
(* Properties of the TTL worker (SpecTtl) *)

\* the TTL worker's erase removes an entry of the map in this step
TtlRemoves == tw.step = "pass" /\ tw'.step = "erase"

\* C18: the object the TTL worker removes from the map has an expiry, and
\* that expiry is at or before now.
C18_TtlRemovesExpiredOnly ==
    [][TtlRemoves =>
           /\ IsSome(Unwrap(tw'.object).expiry)
           /\ Unwrap(Unwrap(tw'.object).expiry) <= now]_vars

-----------------------------------------------------------------------------
(* Properties of the eviction pass (Spec) *)

\* the eviction pass removes an entry of the map in this step
PolicyEvicts == pw.step = "pass" /\ pw'.step = "erase"

\* the thread's last call is a set that returned Ok and stored the only
\* object of the map; no call has begun since
AcceptedAlone(t) ==
    /\ pc[t] = "idle"
    /\ ret[t].op = "set" /\ ret[t].res = "Ok"
    /\ \A k \in HashedKeys :
           IsSome(objects[k]) <=> k = hash_key(ret[t].key)

\* C19: the eviction pass does not remove an object that set has accepted
\* into a cache holding no other object, max_size and the policy being those
\* of the set.
C19_AcceptedNotEvicted ==
    [][PolicyEvicts => ~AcceptedAlone(1)]_vars

-----------------------------------------------------------------------------
(* Termination of the eviction pass (SpecFair) *)

\* the policy worker is in its eviction loop
Evicting == pw.step \in {"pass", "erase"}

\* C20: an eviction pass that has begun ends.
C20_EvictionTerminates == Evicting ~> ~Evicting

-----------------------------------------------------------------------------
(* Properties of the active stack and the interim mini stack (Spec) *)

\* a reconstruction thread runs, or its stack waits in the channel
Awaited == recon /= <<>> \/ recon_q /= <<>>

\* C21: between two passes of the policy worker's loop exactly one of the
\* active stack and the interim mini-stack index is populated, and the active
\* stack is present iff no reconstruction result is awaited.
C21_StackOrInterim ==
    pw.step = "idle" =>
        /\ IsSome(pw.policy_stack) <=> ~IsSome(pw.mini_index)
        /\ IsSome(pw.policy_stack) <=> ~Awaited

\* C22: a stack the policy worker installs was built for the most recent
\* switch request: it is a stack of the worker's current policy.
C22_NoSupersededStack ==
    [][Installs =>
           Unwrap(pw'.policy_stack).policy = pw'.current_policy]_vars

-----------------------------------------------------------------------------
(* Properties of the trace (Spec) *)

\* what the trace holds once the trace worker has written the events sent to
\* it and the policy worker has flushed the events it buffers
TraceToBe == trace_write(trace, trace_q \o pw.buffered_events)

\* C23: the stack events reach the trace in the order in which the policy
\* worker came to them, the Del of an eviction before every event handled
\* after it: the trace is the initial Resize followed by the worker's events.
C23_TraceInOrder ==
    TraceToBe = trace_write(<<StackResize(new_in.max_size)>>, pw.processed)

-----------------------------------------------------------------------------
(* Properties of the active policy (SpecConc) *)

\* C24: in a quiescent state the policy status() reports is the policy
\* worker's current policy.
C24_PolicyAgrees ==
    Quiescent => status_policy(status) = pw.current_policy

-----------------------------------------------------------------------------
(* Properties of the counters' range (SpecConc) *)

\* C25: base_used_size and num_objects never wrap below zero.  The counters
\* are kept as integers, a negative one being a wrapped u64.
C25_NoWrap ==
    status.base_used_size >= 0 /\ status.num_objects >= 0

-----------------------------------------------------------------------------
(* Properties of expiry and the stacks (SpecTtl) *)

\* the active stack or a mini stack holds the key
OnSomeStack(k) ==
    \/ IF IsSome(pw.policy_stack)
       THEN stack_contains(Unwrap(pw.policy_stack), k) ELSE FALSE
    \/ \E i \in 1..Len(pw.mini_stacks) :
           stack_contains(pw.mini_stacks[i].stack, k)

\* C26: in a quiescent state a key the TTL worker has removed from the map,
\* and that has not been set since, is on no stack.
C26_ExpiredLeavesStacks ==
    Quiescent =>
        \A k \in HashedKeys :
            (hist[k].expired /\ ~IsSome(objects[k])) => ~OnSomeStack(k)

-----------------------------------------------------------------------------
(* The cache under one foreground thread: two stored keys and a raw key that
   shares the hash of one of them, so that a get can miss on a key that the
   active stack holds. *)

MaxOpsMiss == 3
MissSetKeys == {1, 4}
MissGetKeys == {1, 3, 4}

InitMiss == InitCache(160, <<"Lru", "Lfu">>, "Lru") /\ ops = MaxOpsMiss

CallMiss(t) ==
    \/ \E key \in MissSetKeys : set_A(t, key, 4, None)
    \/ \E key \in MissGetKeys : get_A(t, key)

NextMiss ==
    \/ CallMiss(1)
    \/ get_B(1)
    \/ set_B(1)
    \/ manager_run
    \/ policy_run_events

SpecMiss == InitMiss /\ [][NextMiss]_vars

\* a batch of the policy worker that holds Get events of misses only
MissesOnly(events) ==
    /\ events /= <<>>
    /\ \A i \in 1..Len(events) : events[i].type = "Get" /\ ~events[i].hit

\* the keys of the active stack in the order it would evict them
ActiveOrder(w) ==
    IF IsSome(w.policy_stack) THEN stack_drain(Unwrap(w.policy_stack))
    ELSE <<>>

\* C27: processing Get events with hit = false leaves the active stack's
\* membership and order unchanged: a pass of the policy worker over a batch
\* of missed Gets alone (no stack delivered by a reconstruction in the same
\* pass) ends with the active stack it began with.
C27_MissLeavesStack ==
    [][(/\ pw.step = "idle"
        /\ MissesOnly(policy_q)
        /\ recon_q = <<>>
        /\ policy_q' = <<>>) => ActiveOrder(pw') = ActiveOrder(pw)]_vars

-----------------------------------------------------------------------------
(* The cache under one foreground thread: the automatic policy after two
   policy changes.  The calls come in one fixed order: the workload that
   makes the Lfu mini stack miss less than the Lru one, then policy(Lfu),
   policy(Lru) and policy(Auto); the clock can pass AUTO_POLICY_DURATION. *)

MaxHours == 1

SwitchScript ==
    <<[op |-> "set", key |-> 1, policy |-> ""],
      [op |-> "get", key |-> 1, policy |-> ""],
      [op |-> "set", key |-> 4, policy |-> ""],
      [op |-> "set", key |-> 5, policy |-> ""],
      [op |-> "get", key |-> 1, policy |-> ""],
      [op |-> "policy", key |-> 0, policy |-> "Lfu"],
      [op |-> "policy", key |-> 0, policy |-> "Lru"],
      [op |-> "policy", key |-> 0, policy |-> Auto]>>

MaxOpsSwitch == 8

InitSwitch ==
    InitCache(50000, <<"Lru", "Lfu">>, "Lru") /\ ops = MaxOpsSwitch

CallSwitch(t) ==
    /\ ops > 0
    /\ LET call == SwitchScript[MaxOpsSwitch - ops + 1]
       IN  CASE call.op = "set" -> set_A(t, call.key, 4, None)
             [] call.op = "get" -> get_A(t, call.key)
             [] OTHER -> policy_A(t, call.policy)

\* the clock passes the period of the automatic policy
TickHour ==
    /\ now < MaxHours * (AUTO_POLICY_DURATION + 1)
    /\ status.is_auto_policy
    /\ now' = now + AUTO_POLICY_DURATION + 1
    /\ UNCHANGED <<objects, status, pc, loc, ret, ops, main_q, policy_q,
                   ttl_q, trace_q, recon_q, pw, tw, trace, recon, hist,
                   NewVars>>

NextSwitch ==
    \/ CallSwitch(1)
    \/ get_B(1)
    \/ set_B(1)
    \/ policy_B(1)
    \/ manager_run
    \/ policy_run_events
    \/ policy_run_auto
    \/ \E i \in 1..Len(recon) : reconstruct(i)
    \/ trace_run
    \/ TickHour

SpecSwitch == InitSwitch /\ [][NextSwitch]_vars

\* a thread is reconstructing the stack of the worker's current policy
Reconstructing ==
    \E i \in 1..Len(recon) : recon[i] = pw.current_policy

\* the policy worker decides for an automatic switch
StartsAutoSwitch == pw.step /= "auto" /\ pw'.step = "auto"

\* the policy worker asks the mini stacks for the optimal policy
EvaluatesOptimal == pw'.last_auto_policy_time /= pw.last_auto_policy_time

\* the batch the worker read in this step holds a Set event
SetInBatch ==
    pw.step = "idle" /\ \E i \in 1..Len(policy_q) : policy_q[i].type = "Set"

\* C28: the policy worker starts an automatic switch only when the auto flag
\* is set, no Set event was processed in the current batch and no
\* reconstruction is in progress (the worker is not in interim mode and no
\* thread is still reconstructing the stack of the worker's current policy),
\* and an evaluation of the optimal policy is the first one or comes more
\* than AUTO_POLICY_DURATION after the last.
C28_AutoSwitchGuard ==
    [][/\ StartsAutoSwitch =>
            /\ status.is_auto_policy
            /\ ~SetInBatch /\ ~pw'.has_current_set
            /\ ~IsSome(pw'.mini_index) /\ ~Reconstructing'
            /\ EvaluatesOptimal
       /\ EvaluatesOptimal =>
            /\ pw'.last_auto_policy_time = Some(now)
            /\ IsSome(pw.last_auto_policy_time) =>
                   now - Unwrap(pw.last_auto_policy_time) > AUTO_POLICY_DURATION
      ]_vars

-----------------------------------------------------------------------------
(* The optimal-policy selector on drawn mini stacks: the cache has the
   automatic policy switched on, and its mini stacks have counted the same
   number of sampled reads with any number of hits each.  The policy worker
   runs its pass, which asks the selector, and carries out the switch. *)

MaxSelCount == 3
SelPolicies == {"Lru", "Lfu", "Fifo"}

SelLists ==
    {l \in ListsUpTo(SelPolicies, MaxPolicies) :
        Len(l) >= 2 /\ ~is_multiset(l)}

\* the mini stacks of w after count sampled reads, hits[i] of them hits of
\* the i-th mini stack
WithCounts(w, count, hits) ==
    [w EXCEPT !.mini_stacks =
        [i \in 1..Len(@) |-> [@[i] EXCEPT !.count = count, !.hits = hits[i]]]]

InitSel ==
    \E policies \in SelLists :
      \E i \in 1..Len(policies), count \in 0..MaxSelCount :
        \E hits \in [1..Len(policies) -> 0..count] :
          LET s0 == with_hasher(50000, policies, policies[i]).status
              s1 == set_policy(s0, Auto).status
          IN  /\ new_in = NewArgs(50000, policies, policies[i])
              /\ new_out = "Ok"
              /\ status = [s1 EXCEPT !.total_gets = count,
                                     !.total_hits = count]
              /\ pw = WithCounts(PolicyWorker_new(s1), count, hits)
              /\ trace_q = <<StackResize(50000)>>
              /\ ops = 0
              /\ Fresh

NextSel ==
    \/ policy_run_events
    \/ policy_run_auto
    \/ \E i \in 1..Len(recon) : reconstruct(i)

SpecSel == InitSel /\ [][NextSel]_vars

\* the mini stack of policy p
MiniOf(p) ==
    pw.mini_stacks[CHOOSE i \in 1..Len(pw.mini_stacks) :
                       pw.mini_stacks[i].policy = p]

MissRatioOf(p) == MiniStack_miss_ratio(MiniOf(p))

\* the selector was asked in the last pass and the switch has not begun
Selected == pw.step = "auto"
NothingSelected ==
    /\ pw.step = "idle" /\ IsSome(pw.last_auto_policy_time)
    /\ status_policy(status) = new_in.policy

\* C29: the selector returns q only if no mini stack has a lower miss ratio
\* than q's, no mini stack of the same miss ratio has a smaller per-object
\* overhead, and q's miss ratio is strictly lower than that of the current
\* policy's mini stack, so q is not the current policy; it returns nothing
\* only if no mini stack has a strictly lower miss ratio than the current
\* policy's.
C29_OptimalPolicy ==
    /\ Selected =>
         LET q == Unwrap(pw.auto_policy)
         IN  /\ \A p \in SelPolicies :
                  (\E i \in 1..Len(pw.mini_stacks) :
                       pw.mini_stacks[i].policy = p) =>
                      /\ ~RatioLt(MissRatioOf(p), MissRatioOf(q))
                      /\ RatioEq(MissRatioOf(p), MissRatioOf(q)) =>
                             get_policy_overhead(q) <= get_policy_overhead(p)
             /\ RatioLt(MissRatioOf(q), MissRatioOf(pw.current_policy))
             /\ q /= pw.current_policy
    /\ NothingSelected =>
         \A i \in 1..Len(pw.mini_stacks) :
             ~RatioLt(MiniStack_miss_ratio(pw.mini_stacks[i]),
                      MissRatioOf(pw.current_policy))

\* a policy is selected among two mini stacks of the lowest miss ratio
C29_Witness ==
    /\ Selected
    /\ \E i \in 1..Len(pw.mini_stacks) :
           /\ pw.mini_stacks[i].policy /= Unwrap(pw.auto_policy)
           /\ RatioEq(MiniStack_miss_ratio(pw.mini_stacks[i]),
                      MissRatioOf(Unwrap(pw.auto_policy)))

-----------------------------------------------------------------------------
(* The cache under one foreground thread and the Mru policy: objects are
   set, some of them twice, read and deleted, and the cache is resized to
   the base size of one object, which starts the eviction loop. *)

MaxOpsMru == 3
MruKeys == {1, 4}
MruSizes == {24}

InitMru == InitCache(160, <<"Mru">>, "Mru") /\ ops = MaxOpsMru

CallMru(t) ==
    \/ \E key \in MruKeys : set_A(t, key, 4, None)
    \/ \E key \in MruKeys : get_A(t, key)
    \/ \E key \in MruKeys : del_A(t, key)
    \/ \E max_size \in MruSizes : resize_A(t, max_size)

NextMru ==
    \/ CallMru(1)
    \/ set_B(1)
    \/ get_B(1)
    \/ del_B(1)
    \/ resize_B(1)
    \/ manager_run
    \/ policy_run_events
    \/ apply_evictions_A
    \/ apply_evictions_B
    \/ policy_run_end

SpecMru == InitMru /\ [][NextMru]_vars

\* the eviction loop is about to evict from the active stack
PopsActive ==
    /\ pw.step = "pass"
    /\ over_max_size(pw, status)
    /\ ~IsSome(pw.mini_index)

\* C30: the evict operation of the active stack returns None only when the
\* stack holds no key (len() = 0), and when the stack holds a key it returns
\* a key that the stack contained before the call and does not contain after
\* it.
C30_EvictContract ==
    PopsActive =>
        LET s == Unwrap(pw.policy_stack)
            r == stack_pop(s)
        IN  /\ r.key = None => stack_len(s) = 0
            /\ stack_len(s) > 0 =>
                   /\ IsSome(r.key)
                   /\ stack_contains(s, Unwrap(r.key))
                   /\ ~stack_contains(r.stack, Unwrap(r.key))

-----------------------------------------------------------------------------
(* A policy stack on its own: the calls of the PolicyStack trait are applied
   to the stack of one policy in any order.  pw.processed records the calls,
   an eviction with the key it returned (0 for None). *)

MaxStackOps == 6
StackKeys == {1, 4, 5}

StackCall(type_, key, size_) ==
    [type |-> type_, key |-> key, size |-> size_]

InitStack(policy) ==
    InitCache(160, <<policy>>, policy) /\ ops = MaxStackOps

\* the stack after a call, the call recorded
StackStep(stack, call) ==
    /\ ops > 0
    /\ ops' = ops - 1
    /\ pw' = [pw EXCEPT !.policy_stack = Some(stack),
                        !.processed = Append(@, call)]
    /\ UNCHANGED <<objects, status, pc, loc, ret, now, main_q, policy_q,
                   ttl_q, trace_q, recon_q, tw, trace, recon, hist, NewVars>>

PolicyStack_insert(key, size_) ==
    StackStep(stack_insert(Unwrap(pw.policy_stack), key, size_),
              StackCall("Set", key, size_))

PolicyStack_update(key) ==
    StackStep(stack_update(Unwrap(pw.policy_stack), key),
              StackCall("Get", key, 0))

PolicyStack_remove(key) ==
    StackStep(stack_remove(Unwrap(pw.policy_stack), key),
              StackCall("Del", key, 0))

PolicyStack_popped(r) ==
    StackStep(r.stack,
              StackCall("Evict", IF IsSome(r.key) THEN Unwrap(r.key) ELSE 0,
                        0))

PolicyStack_pop == PolicyStack_popped(stack_pop(Unwrap(pw.policy_stack)))

NextStack ==
    \/ \E key \in StackKeys : PolicyStack_insert(key, 1)
    \/ \E key \in StackKeys : PolicyStack_update(key)
    \/ \E key \in StackKeys : PolicyStack_remove(key)
    \/ PolicyStack_pop

SpecLfu == InitStack("Lfu") /\ [][NextStack]_vars

\* the active stack and the calls made on it
TheStack == Unwrap(pw.policy_stack)
Calls == pw.processed
LastCall == Calls[Len(Calls)]

\* the access count of key after the calls h: 1 at insertion, one more per
\* update or re-insert, 0 when the key is not on the stack
RECURSIVE AccessCount(_, _)
AccessCount(h, key) ==
    IF h = <<>> THEN 0
    ELSE LET before == AccessCount(SubSeq(h, 1, Len(h) - 1), key)
             call == h[Len(h)]
         IN  IF call.key /= key THEN before
             ELSE CASE call.type = "Set" -> before + 1
                    [] call.type = "Get" ->
                           IF before = 0 THEN 0 ELSE before + 1
                    [] OTHER -> 0

\* the position in h of the call that gave key its count
RECURSIVE ReachedAt(_, _)
ReachedAt(h, key) ==
    IF h = <<>> THEN 0
    ELSE LET call == h[Len(h)]
             rest == SubSeq(h, 1, Len(h) - 1)
         IN  IF /\ call.key = key
                /\ \/ call.type = "Set"
                   \/ call.type = "Get" /\ AccessCount(rest, key) > 0
             THEN Len(h)
             ELSE ReachedAt(rest, key)

LfuBefore(h, a, b) ==
    \/ AccessCount(h, a) < AccessCount(h, b)
    \/ /\ AccessCount(h, a) = AccessCount(h, b)
       /\ ReachedAt(h, a) < ReachedAt(h, b)

\* the count lists hold each key of the stack once, in the list of its
\* access count; no list is empty and the counts ascend
LfuBuckets(d, h) ==
    /\ \A key \in StackKeys :
           Cardinality({<<i, j>> \in (1..Len(d)) \X (1..MaxStackOps) :
                            j <= Len(d[i].list) /\ d[i].list[j] = key})
               = IF AccessCount(h, key) > 0 THEN 1 ELSE 0
    /\ \A i \in 1..Len(d) :
           /\ d[i].list /= <<>>
           /\ \A j \in 1..Len(d[i].list) :
                  AccessCount(h, d[i].list[j]) = d[i].count
           /\ i > 1 => d[i - 1].count < d[i].count

\* C31: Lfu eviction returns a key of minimal access count and, among the
\* keys of that count, the one that reached it earliest (None when no key is
\* on the stack); after any calls each key of the stack is in exactly one
\* count list.
C31_LfuOrder ==
    LET present == {key \in StackKeys : AccessCount(Calls, key) > 0}
        r == LfuPop(TheStack.data)
    IN  /\ LfuBuckets(TheStack.data, Calls)
        /\ present = {} => r.key = None
        /\ present /= {} =>
               /\ IsSome(r.key) /\ Unwrap(r.key) \in present
               /\ \A other \in present \ {Unwrap(r.key)} :
                      LfuBefore(Calls, Unwrap(r.key), other)

\* an eviction chose between two keys of the same count and left one of a
\* higher count
C31_Witness ==
    /\ Calls /= <<>> /\ LastCall.type = "Evict" /\ LastCall.key /= 0
    /\ LET h == SubSeq(Calls, 1, Len(Calls) - 1)
       IN  \E a, b \in StackKeys \ {LastCall.key} :
               /\ AccessCount(h, a) = AccessCount(h, LastCall.key)
               /\ AccessCount(h, b) > AccessCount(h, LastCall.key)

-----------------------------------------------------------------------------
SpecMruStack == InitStack("Mru") /\ [][NextStack]_vars

\* C32: Mru eviction returns the current MRU key only when no other key
\* remains in the stack, after any sequence of insert, update, remove and
\* evict, including an insert of the key that is the current MRU key.
C32_MruKeptForLast ==
    LET d == TheStack.data
        r == MruEvictOne(d)
    IN  (IsSome(d.mru) /\ r.key = d.mru) =>
            \A key \in StackKeys \ {Unwrap(d.mru)} : ~MruContains(d, key)

-----------------------------------------------------------------------------
SpecClock == InitStack("Clock") /\ [][NextStack]_vars

\* the stack of a policy after the calls h
RECURSIVE StackAfter(_, _)
StackAfter(policy, h) ==
    IF h = <<>> THEN init_policy_stack(policy, 160)
    ELSE LET s == StackAfter(policy, SubSeq(h, 1, Len(h) - 1))
             call == h[Len(h)]
         IN  IF call.type = "Evict" THEN stack_pop(s).stack
             ELSE StackEvent_apply(s, call)

\* the entries d[from..to] with their flags cleared
Cleared(d, from, to) ==
    [i \in 1..(to - from + 1) |-> [d[from + i - 1] EXCEPT !.visited = FALSE]]

\* C33: Clock eviction scans from the tail: every visited entry it passes
\* has its flag cleared and is rotated to the front, and the first entry
\* found unvisited is removed and returned, so no key is returned whose flag
\* is set when it is examined; the scan ends, with None only when the stack
\* is empty.
C33_ClockScan ==
    LET d == TheStack.data
        n == Len(d)
        r == ClockPop(d)
        unvisited == {i \in 1..n : ~d[i].visited}
    IN  IF n = 0 THEN r = [data |-> <<>>, key |-> None]
        ELSE IF unvisited = {}
        THEN /\ r.key = Some(d[n].key)
             /\ r.data = Cleared(d, 1, n - 1)
        ELSE LET j == CHOOSE i \in unvisited : \A k \in unvisited : k <= i
             IN  /\ r.key = Some(d[j].key)
                 /\ r.data = Cleared(d, j + 1, n) \o SubSeq(d, 1, j - 1)

\* an eviction passed a visited entry at the tail and returned a key that
\* was in front of it
C33_Witness ==
    /\ Calls /= <<>> /\ LastCall.type = "Evict" /\ LastCall.key /= 0
    /\ LET d == StackAfter("Clock", SubSeq(Calls, 1, Len(Calls) - 1)).data
       IN  /\ Back(d).visited
           /\ Back(d).key /= LastCall.key
           /\ ClockContains(TheStack.data, Back(d).key)

-----------------------------------------------------------------------------
SpecSieve == InitStack("Sieve") /\ [][NextStack]_vars

\* the call made by this step
ThisCall == pw'.processed[Len(pw'.processed)]
Calling(type_) == pw'.processed /= pw.processed /\ ThisCall.type = type_

KeysOf(list) == [i \in 1..Len(list) |-> list[i].key]

\* the entry the next eviction examines first
UnderHand(d) ==
    IF IsSome(d.hand) THEN d.hand
    ELSE IF d.list = <<>> THEN None ELSE Some(Back(d.list).key)

\* C34: the Sieve hand is persistent: insert, update, and remove of a key
\* other than the one under the hand leave it unchanged; eviction starts at
\* the saved hand, moves no entry (the entries left keep their order) and
\* returns an entry that was unvisited or whose flag it cleared on its way.
C34_SieveHand ==
    [][LET d == TheStack.data
           e == Unwrap(pw'.policy_stack).data
       IN  /\ (Calling("Set") \/ Calling("Get")) => e.hand = d.hand
           /\ (Calling("Del") /\ Some(ThisCall.key) /= UnderHand(d)) =>
                  e.hand = d.hand
           /\ (Calling("Evict") /\ ThisCall.key /= 0) =>
                  /\ KeysOf(e.list) =
                         KeysOf(ClockRemove(d.list, ThisCall.key))
                  /\ \A i \in 1..Len(d.list) :
                         (d.list[i].key = ThisCall.key /\ d.list[i].visited)
                             => \A j \in 1..Len(e.list) : ~e.list[j].visited
      ]_vars

-----------------------------------------------------------------------------
(* A policy stack that looks at sizes, on its own: objects of two sizes, and
   resize among the calls. *)

MaxSizedOps == 4
SizedSizes == {24, 48}
SizedMaxSizes == {80, 160}

InitSized(policy) ==
    InitCache(160, <<policy>>, policy) /\ ops = MaxSizedOps

PolicyStack_resize(max_size) ==
    StackStep(stack_resize(Unwrap(pw.policy_stack), max_size),
              StackCall("Resize", 0, max_size))

NextSized ==
    \/ \E key \in StackKeys, size_ \in SizedSizes :
           PolicyStack_insert(key, size_)
    \/ \E key \in StackKeys : PolicyStack_update(key)
    \/ \E key \in StackKeys : PolicyStack_remove(key)
    \/ \E max_size \in SizedMaxSizes : PolicyStack_resize(max_size)
    \/ PolicyStack_pop

SpecTwoQ == InitSized("TwoQ") /\ [][NextSized]_vars

\* C35: in the 2Q stack, after every insert, update, remove, resize and
\* evict, the sizes of the entries of A1in sum to at most k_in x max and
\* those of A1out to at most k_out x max.
C35_TwoQBounds ==
    LET d == TheStack.data
    IN  /\ SizeSum(d.a1_in) <= d.in_max
        /\ SizeSum(d.a1_out) <= d.out_max

-----------------------------------------------------------------------------
(* The S3-FIFO stack on its own: two keys, objects that fill main after a
   resize, and every call of the trait. *)

MaxS3Ops == 7
S3Keys == {1, 4}

InitS3 == InitCache(160, <<"SThreeFifo">>, "SThreeFifo") /\ ops = MaxS3Ops

NextS3 ==
    \/ \E key \in S3Keys : PolicyStack_insert(key, 48)
    \/ \E key \in S3Keys : PolicyStack_update(key)
    \/ \E key \in S3Keys : PolicyStack_remove(key)
    \/ PolicyStack_resize(80)
    \/ PolicyStack_pop

SpecS3 == InitS3 /\ [][NextS3]_vars

EntryOf(list, key) == list[CHOOSE i \in 1..Len(list) : list[i].key = key]
IndexOf(list, key) == CHOOSE i \in 1..Len(list) : list[i].key = key

\* C36: S3-FIFO evicts a key from small only if its frequency is at most 1,
\* the entries of small behind it, all of frequency above 1, having moved to
\* main; it evicts a key from main only when its frequency, capped at 3 and
\* decremented on each pass, has reached 0: the key had the least frequency
\* of main, every entry behind it had more, and the entries left have lost
\* one per pass; a key of the ghost list that is inserted again enters main.
C36_S3Eviction ==
    [][LET d == TheStack.data
           e == Unwrap(pw'.policy_stack).data
           k == ThisCall.key
           kept == Len(e.small)
           moved == SubSeq(d.small, kept + 1, Len(d.small))
           M == moved \o d.main
       IN  /\ \A i \in 1..Len(e.small) : e.small[i].freq <= 3
           /\ \A i \in 1..Len(e.main) : e.main[i].freq <= 3
           /\ (Calling("Evict") /\ k /= 0 /\ Len(e.ghost) > Len(d.ghost)) =>
                  /\ ClockContains(d.small, k)
                  /\ EntryOf(d.small, k).freq <= 1
                  /\ e.ghost = <<k>> \o d.ghost
                  /\ e.small = SubSeq(d.small, 1, IndexOf(d.small, k) - 1)
                  /\ e.main =
                         SubSeq(d.small, IndexOf(d.small, k) + 1, Len(d.small))
                             \o d.main
                  /\ \A i \in (IndexOf(d.small, k) + 1)..Len(d.small) :
                         d.small[i].freq > 1
           /\ (Calling("Evict") /\ k /= 0 /\ Len(e.ghost) <= Len(d.ghost)) =>
                  /\ e.small = SubSeq(d.small, 1, kept)
                  /\ \A i \in 1..Len(moved) : moved[i].freq > 1
                  /\ ClockContains(M, k)
                  /\ ~ClockContains(e.main, k)
                  /\ \A i \in 1..Len(M) :
                         LET f == EntryOf(M, k).freq
                             behind == i > IndexOf(M, k)
                         IN  M[i].key /= k =>
                                 /\ M[i].freq >= f + (IF behind THEN 1 ELSE 0)
                                 /\ ClockContains(e.main, M[i].key)
                                 /\ EntryOf(e.main, M[i].key).freq =
                                        M[i].freq - f
                                            - (IF behind THEN 1 ELSE 0)
           /\ (Calling("Set") /\ Contains(d.ghost, ThisCall.key)
                  /\ ~ClockContains(d.small, ThisCall.key)
                  /\ ~ClockContains(d.main, ThisCall.key)) =>
                  /\ e.main = <<[key |-> ThisCall.key, size |-> ThisCall.size,
                                 freq |-> 0]>> \o d.main
                  /\ e.small = d.small
      ]_vars

\* an eviction moved two keys of frequency above 1 from small to main and
\* took one of them from main once its frequency had come down to 0, the
\* other losing as much on the way
C36_Witness ==
    /\ Calls /= <<>> /\ LastCall.type = "Evict" /\ LastCall.key /= 0
    /\ LET d == StackAfter("SThreeFifo", SubSeq(Calls, 1, Len(Calls) - 1)).data
           e == TheStack.data
       IN  /\ ClockContains(d.small, LastCall.key)
           /\ EntryOf(d.small, LastCall.key).freq > 1
           /\ \E i \in 1..Len(e.main) :
                  /\ ClockContains(d.small, e.main[i].key)
                  /\ e.main[i].freq < EntryOf(d.small, e.main[i].key).freq

\* C37: after every eviction the ghost list holds no more keys than main
C37_GhostBounded ==
    (Calls /= <<>> /\ LastCall.type = "Evict" /\ LastCall.key /= 0) =>
        Len(TheStack.data.ghost) <= Len(TheStack.data.main)

-----------------------------------------------------------------------------
(* The trace worker on its own.  Time is counted in hours; a fragment is its
   creation time and the events written to it; the queue has its oldest
   fragment first. *)

MAX_AGE == 168
REFRESH_AGE == 1

MaxTraceOps == 6
TraceTicks == {1, 2, 167}
TraceEvents == {[type |-> "Set", key |-> 1, size |-> 24], WipeEvent}

TraceFragment_new(now_) == [created |-> now_, events |-> <<>>]
TraceFragment_is_expired(fragment, now_) == now_ - fragment.created > MAX_AGE
TraceFragment_is_valid(fragment, now_) == now_ - fragment.created <= REFRESH_AGE

\* refresh_fragments that keeps the expired fragments
refresh_fragments_keeping(fragments, now_) ==
    IF fragments /= <<>> /\ TraceFragment_is_valid(Back(fragments), now_)
    THEN fragments
    ELSE Append(fragments, TraceFragment_new(now_))

RECURSIVE refresh_fragments(_, _)
refresh_fragments(fragments, now_) ==
    IF fragments /= <<>> /\ TraceFragment_is_expired(Head(fragments), now_)
    THEN refresh_fragments(Tail(fragments), now_)
    ELSE IF fragments /= <<>> /\ TraceFragment_is_valid(Back(fragments), now_)
    THEN fragments
    ELSE Append(fragments, TraceFragment_new(now_))

\* the loop of run over the events of one pass
RECURSIVE TraceWorker_write(_, _, _)
TraceWorker_write(fragments, events, now_) ==
    IF events = <<>> THEN fragments
    ELSE LET event == Head(events)
             wiped == IF event.type = "Wipe"
                      THEN refresh_fragments(<<>>, now_)
                      ELSE fragments
             written == IF event.type \in {"Get", "Set", "Del", "Resize"}
                        THEN [wiped EXCEPT ![Len(wiped)].events =
                                               Append(@, event)]
                        ELSE wiped
         IN  TraceWorker_write(written, Tail(events), now_)

\* a producer sends a stack event to the trace worker
TraceSend(event) ==
    /\ ops > 0 /\ ops' = ops - 1
    /\ trace_q' = Append(trace_q, event)
    /\ UNCHANGED <<objects, status, pc, loc, ret, now, main_q, policy_q,
                   ttl_q, recon_q, pw, tw, trace, recon, hist, NewVars>>

TraceTick(hours) ==
    /\ ops > 0 /\ ops' = ops - 1
    /\ now' = now + hours
    /\ UNCHANGED <<objects, status, pc, loc, ret, main_q, policy_q, ttl_q,
                   trace_q, recon_q, pw, tw, trace, recon, hist, NewVars>>

\* one pass of run that finds events on the listener
TraceWorker_run ==
    /\ trace_q /= <<>>
    /\ trace' = TraceWorker_write(refresh_fragments(trace, now), trace_q, now)
    /\ trace_q' = <<>>
    /\ UNCHANGED <<objects, status, pc, loc, ret, ops, now, main_q, policy_q,
                   ttl_q, recon_q, pw, tw, recon, hist, NewVars>>

InitTrace == InitCache(160, <<"Lfu">>, "Lfu") /\ ops = MaxTraceOps

NextTrace ==
    \/ \E event \in TraceEvents : TraceSend(event)
    \/ \E hours \in TraceTicks : TraceTick(hours)
    \/ TraceWorker_run

SpecTrace == InitTrace /\ [][NextTrace]_vars

RECURSIVE AfterLastWipe(_)
AfterLastWipe(events) ==
    IF events = <<>> THEN <<>>
    ELSE IF events[Len(events)].type = "Wipe" THEN <<>>
    ELSE Append(AfterLastWipe(SubSeq(events, 1, Len(events) - 1)),
                events[Len(events)])

\* C38: after every pass of the trace worker that refreshes the fragments,
\* no fragment of the queue is older than MAX_AGE and the newest is no older
\* than REFRESH_AGE, so the queue is not empty; when the pass met a Wipe the
\* queue is one fragment created at the pass that holds the events received
\* after the last Wipe and no other.
C38_FreshFragments ==
    [][(trace_q /= <<>> /\ trace_q' = <<>>) =>
          /\ trace' /= <<>>
          /\ \A i \in 1..Len(trace') : now - trace'[i].created <= MAX_AGE
          /\ now - Back(trace').created <= REFRESH_AGE
          /\ \A i \in 1..(Len(trace') - 1) :
                 trace'[i].created < trace'[i + 1].created
          /\ (\E i \in 1..Len(trace_q) : trace_q[i].type = "Wipe") =>
                 trace' = <<[created |-> now,
                             events |-> AfterLastWipe(trace_q)]>>
      ]_vars

\* a pass has dropped an expired fragment, kept one that is not, and added a
\* new one
C38_Witness ==
    /\ trace_q = <<>>
    /\ Len(trace) = 2
    /\ trace[1].created > 0
    /\ now - trace[1].created > REFRESH_AGE
    /\ trace[2].created = now
    /\ now > MAX_AGE

-----------------------------------------------------------------------------
(* A mini stack on its own, of max size 0 as for a cache of 160 bytes, with
   objects larger and smaller than the max sizes it is resized to.  A call
   whose reduce never ends leaves the worker in step "reduce". *)

MaxMiniOps == 4
MiniPolicies == {"Lfu", "Mru", "SThreeFifo"}
MiniKeys == {1, 4}
MiniSizes == {24, 48}
MiniMaxSizes == {0, 40, 80}

InitMini ==
    \E policy \in MiniPolicies :
        InitCache(160, <<policy>>, policy) /\ ops = MaxMiniOps

TheMini == pw.mini_stacks[1]

MiniStep(hangs, mini, call) ==
    /\ ops > 0 /\ ops' = ops - 1
    /\ pw.step = "idle"
    /\ pw' = [pw EXCEPT !.step = IF hangs THEN "reduce" ELSE @,
                        !.mini_stacks = IF hangs THEN @ ELSE <<mini>>,
                        !.processed = Append(@, call)]
    /\ UNCHANGED <<objects, status, pc, loc, ret, now, main_q, policy_q,
                   ttl_q, trace_q, recon_q, tw, trace, recon, hist, NewVars>>

MiniStack_call_insert(key, size_) ==
    MiniStep(MiniStack_reduce_hangs(TheMini, TheMini.max_size - size_),
             MiniStack_insert(TheMini, key, size_),
             StackCall("Set", key, size_))

MiniStack_call_resize(size_) ==
    MiniStep(MiniStack_reduce_hangs(
                 [TheMini EXCEPT !.stack = stack_resize(@, size_)], size_),
             MiniStack_resize(TheMini, size_),
             StackCall("Resize", 0, size_))

MiniStack_call_update(key) ==
    MiniStep(FALSE, MiniStack_update_with_count(TheMini, key),
             StackCall("Get", key, 0))

MiniStack_call_remove(key) ==
    MiniStep(FALSE, MiniStack_remove(TheMini, key), StackCall("Del", key, 0))

MiniStack_call_pop ==
    LET r == MiniStack_pop(TheMini)
    IN  MiniStep(FALSE, r.mini,
                 StackCall("Evict",
                           IF IsSome(r.key) THEN Unwrap(r.key) ELSE 0, 0))

NextMini ==
    \/ \E key \in MiniKeys, size_ \in MiniSizes :
           MiniStack_call_insert(key, size_)
    \/ \E size_ \in MiniMaxSizes : MiniStack_call_resize(size_)
    \/ \E key \in MiniKeys : MiniStack_call_update(key)
    \/ \E key \in MiniKeys : MiniStack_call_remove(key)
    \/ MiniStack_call_pop

SpecMini == InitMini /\ [][NextMini]_vars

\* C39: insert and resize of a mini stack always end, and after each of them
\* the used size of the mini stack is at most its max size, whatever the
\* size of the object and the max size, 0 included.
C39_MiniBounded ==
    /\ pw.step /= "reduce"
    /\ (Calls /= <<>> /\ LastCall.type \in {"Set", "Resize"}) =>
           TheMini.used_size <= TheMini.max_size

====
